---- MODULE Spec2Model ----
(***************************************************************************)
(* Verification model of the quadcopter simulation (navv42/quad_UI).       *)
(*                                                                         *)
(* Part 1 models the physics engine, class QuadcopterPhysics of            *)
(* src/lib/types/quadcopter.ts (TypeScript variant, lines 330-646):        *)
(* the control mapper, the quaternion / vector helpers, the dynamics       *)
(* function, the RK4 integrator and the engine facade with its object      *)
(* references (state objects and their arrays live in a heap, so that      *)
(* aliasing between the engine and its callers is observable).             *)
(*                                                                         *)
(* Numbers.  A JavaScript number is modelled as a signed fixed-point       *)
(* value with Scale units per 1.0 (four decimal digits), extended with     *)
(* the IEEE-754 specials NaN, +Infinity and -Infinity, and with the        *)
(* JavaScript value null (which JSON produces for non-finite numbers and   *)
(* which arithmetic coerces to 0).  Magnitudes above MaxNum overflow to    *)
(* +-Infinity as a double does above 1.8e308.  Products and quotients      *)
(* are truncated towards zero to the resolution.  Negative zero is not     *)
(* distinguished from zero.                                                *)
(*                                                                         *)
(* Specifications.  Spec: construct / reset / step sequences on one        *)
(* engine.  SpecCaller: one engine and a caller that keeps and writes to   *)
(* the objects it passed in and got back.  SpecPair: two engines built     *)
(* from the same state and params.  SpecArray: getStateArray() and writes  *)
(* to its result.  SpecVariants: step() of the TypeScript and of the       *)
(* compiled variant of the class.  SpecParams: getParams() and writes to   *)
(* params objects.  SpecConfig: engines built from each params literal.    *)
(* SpecUnused: a second engine rebuilt after one params field changed.     *)
(* SpecInertia: zero and negative inertia.  SpecNaN: NaN states.           *)
(* SpecZeroDt: steps with dt = 0.                                          *)
(* SpecViews: getState() and getStateArray() of one state.                 *)
(*                                                                         *)
(* Part 2 models the application around the engine: the playback state of  *)
(* SingleMode / MultiMode and the frame loop of Quadcopter (SpecPlayback), *)
(* the asynchronous computeTrajectory of usePrecomputedSimulation with     *)
(* calls that overlap (SpecHook) or that follow each other                 *)
(* (SpecHookSequential), the SimulationController with step() calls in     *)
(* flight (SpecController), the formation generators (SpecFormations) and  *)
(* the quaternion conversions between the physics frame and the Three.js   *)
(* frame (SpecQuaternion).                                                 *)
(***************************************************************************)
EXTENDS Integers, Sequences, FiniteSets, TLC

\* ------------------------------------------------------------------------
\* The number model
\* ------------------------------------------------------------------------
Scale == 10000
MaxNum == 20000 * Scale
PInf == MaxNum + 1
NInf == 0 - PInf
NaN == MaxNum + 2
Null == MaxNum + 3

Num(n, d) == (n * Scale) \div d

ToNum(x) == IF x = Null THEN 0 ELSE x

IsFinite(x) == x >= 0 - MaxNum /\ x <= MaxNum

IsNumber(x) == x # Null /\ x # NaN

Abs(x) == IF x < 0 THEN 0 - x ELSE x

Sat(x) == IF x > MaxNum THEN PInf ELSE IF x < 0 - MaxNum THEN NInf ELSE x

FNeg(a0) ==
  LET a == ToNum(a0) IN IF a = NaN THEN NaN ELSE 0 - a

FAdd(a0, b0) ==
  LET a == ToNum(a0)
      b == ToNum(b0)
  IN  IF a = NaN \/ b = NaN THEN NaN
      ELSE IF a = PInf THEN (IF b = NInf THEN NaN ELSE PInf)
      ELSE IF a = NInf THEN (IF b = PInf THEN NaN ELSE NInf)
      ELSE IF b = PInf \/ b = NInf THEN b
      ELSE Sat(a + b)

FSub(a, b) == FAdd(a, FNeg(b))

\* |a*b| / Scale for magnitudes A, B <= MaxNum, without leaving 32 bits
MulMag(A, B) ==
  LET ah == A \div Scale
      al == A % Scale
      bh == B \div Scale
      bl == B % Scale
  IN  IF ah > 0 /\ bh > (MaxNum \div Scale) \div ah
      THEN PInf
      ELSE Sat(ah * bh * Scale + ah * bl + al * bh + (al * bl) \div Scale)

FMul(a0, b0) ==
  LET a == ToNum(a0)
      b == ToNum(b0)
      neg == (a < 0) # (b < 0)
  IN  IF a = NaN \/ b = NaN THEN NaN
      ELSE IF ~IsFinite(a) \/ ~IsFinite(b)
           THEN (IF a = 0 \/ b = 0 THEN NaN ELSE IF neg THEN NInf ELSE PInf)
      ELSE LET m == MulMag(Abs(a), Abs(b)) IN IF neg THEN 0 - m ELSE m

RECURSIVE DivDigits(_, _, _, _)
DivDigits(q, r, B, s) ==
  IF s = 1 THEN q
  ELSE DivDigits(q * 10 + (r * 10) \div B, (r * 10) % B, B, s \div 10)

\* (A * Scale) / B for magnitudes A <= MaxNum, 0 < B <= MaxNum
DivMag(A, B) ==
  LET q0 == A \div B
  IN  IF q0 > MaxNum \div Scale THEN PInf
      ELSE Sat(DivDigits(q0, A % B, B, Scale))

FDiv(a0, b0) ==
  LET a == ToNum(a0)
      b == ToNum(b0)
      neg == (a < 0) # (b < 0)
  IN  IF a = NaN \/ b = NaN THEN NaN
      ELSE IF ~IsFinite(a)
           THEN (IF ~IsFinite(b) THEN NaN ELSE IF neg THEN NInf ELSE PInf)
      ELSE IF ~IsFinite(b) THEN 0
      ELSE IF b = 0 THEN (IF a = 0 THEN NaN ELSE IF a < 0 THEN NInf ELSE PInf)
      ELSE LET m == DivMag(Abs(a), Abs(b)) IN IF neg THEN 0 - m ELSE m

RECURSIVE SqrtIter(_, _)
SqrtIter(x, y) ==
  LET y2 == (y + DivMag(x, y)) \div 2
  IN  IF y2 >= y THEN y ELSE SqrtIter(x, y2)

\* Math.sqrt
FSqrt(a0) ==
  LET a == ToNum(a0)
  IN  IF a = NaN \/ a < 0 THEN NaN
      ELSE IF a = PInf THEN PInf
      ELSE IF a = 0 THEN 0
      ELSE SqrtIter(a, IF a > Scale THEN a ELSE Scale)

\* Math.max of two numbers
FMax(a0, b0) ==
  LET a == ToNum(a0)
      b == ToNum(b0)
  IN  IF a = NaN \/ b = NaN THEN NaN ELSE IF a >= b THEN a ELSE b

\* JSON.parse(JSON.stringify(x)) of one number: NaN and +-Infinity are
\* written as null
JsonNumber(x) == IF IsFinite(x) THEN x ELSE Null

\* ------------------------------------------------------------------------
\* Vector / quaternion math, control mapper, dynamics, RK4
\* (methods of QuadcopterPhysics; "this" is the engine instance)
\* ------------------------------------------------------------------------
\* const v = ...; the value is computed once and then named
Let(v, F(_)) == F(v)

\* state.map((s, i) => ...) over the 13 components of a state vector
Map13(F(_)) ==
  <<F(1), F(2), F(3), F(4), F(5), F(6), F(7), F(8), F(9), F(10), F(11), F(12), F(13)>>

One == Scale
Two == 2 * Scale
Half == Scale \div 2
Six == 6 * Scale

maxRollTorque == Scale \div 2
maxPitchTorque == Scale \div 2
maxYawTorque == Scale \div 10

\* a control mapper that forgets the + 1.0 shift of the throttle
normalizedControlsToForcesUnshifted(this, controls) ==
  << FMax(0, FMul(FMul(controls[1], this.params.mass), this.params.gravity)),
     FMul(controls[2], maxRollTorque),
     FMul(controls[3], maxPitchTorque),
     FMul(controls[4], maxYawTorque) >>

\* a control mapper that scales the torques by the arm length
normalizedControlsToForcesArmScaled(this, controls) ==
  << FMax(0, FMul(FMul(FAdd(controls[1], One), this.params.mass), this.params.gravity)),
     FMul(FMul(controls[2], maxRollTorque), this.params.armLength),
     FMul(FMul(controls[3], maxPitchTorque), this.params.armLength),
     FMul(FMul(controls[4], maxYawTorque), this.params.armLength) >>

\* a control mapper that clamps every action component to [-1, 1] first
Clamp(x) == IF x > One THEN One ELSE IF x < 0 - One THEN 0 - One ELSE x

normalizedControlsToForcesClamped(this, controls) ==
  << FMax(0, FMul(FMul(FAdd(Clamp(controls[1]), One), this.params.mass),
                  this.params.gravity)),
     FMul(Clamp(controls[2]), maxRollTorque),
     FMul(Clamp(controls[3]), maxPitchTorque),
     FMul(Clamp(controls[4]), maxYawTorque) >>

\* a control mapper that caps the thrust at the figure of maxMotorSpeed
normalizedControlsToForcesMotorCapped(this, controls) ==
  Let(FMax(0, FMul(FMul(FAdd(controls[1], One), this.params.mass), this.params.gravity)),
      LAMBDA thrustCmd :
      << IF thrustCmd > this.params.maxMotorSpeed THEN this.params.maxMotorSpeed
         ELSE thrustCmd,
         FMul(controls[2], maxRollTorque),
         FMul(controls[3], maxPitchTorque),
         FMul(controls[4], maxYawTorque) >>)

normalizedControlsToForces(this, controls) ==
  LET throttle == controls[1]
      roll == controls[2]
      pitch == controls[3]
      yaw == controls[4]
      throttleScaled == FAdd(throttle, One)
      thrustCmd == FMax(0, FMul(FMul(throttleScaled, this.params.mass),
                                this.params.gravity))
      rollTorqueCmd == FMul(roll, maxRollTorque)
      pitchTorqueCmd == FMul(pitch, maxPitchTorque)
      yawTorqueCmd == FMul(yaw, maxYawTorque)
  IN  <<thrustCmd, rollTorqueCmd, pitchTorqueCmd, yawTorqueCmd>>

rotationMatrix(xx, yy, zz, xy, xz, yz, wx, wy, wz) ==
  << << FSub(FSub(One, FMul(Two, yy)), FMul(Two, zz)),
        FSub(FMul(Two, xy), FMul(Two, wz)),
        FAdd(FMul(Two, xz), FMul(Two, wy)) >>,
     << FAdd(FMul(Two, xy), FMul(Two, wz)),
        FSub(FSub(One, FMul(Two, xx)), FMul(Two, zz)),
        FSub(FMul(Two, yz), FMul(Two, wx)) >>,
     << FSub(FMul(Two, xz), FMul(Two, wy)),
        FAdd(FMul(Two, yz), FMul(Two, wx)),
        FSub(FSub(One, FMul(Two, xx)), FMul(Two, yy)) >> >>

quatToRotationMatrix(q) ==
  rotationMatrix(FMul(q[2], q[2]), FMul(q[3], q[3]), FMul(q[4], q[4]),
                 FMul(q[2], q[3]), FMul(q[2], q[4]), FMul(q[3], q[4]),
                 FMul(q[1], q[2]), FMul(q[1], q[3]), FMul(q[1], q[4]))

\* a normalisation that returns its argument
normalizeQuaternionSkipped(q) == q

normalizeQuaternion(q) ==
  Let(FSqrt(FAdd(FAdd(FAdd(FMul(q[1], q[1]), FMul(q[2], q[2])),
                      FMul(q[3], q[3])), FMul(q[4], q[4]))),
      LAMBDA norm :
        <<FDiv(q[1], norm), FDiv(q[2], norm), FDiv(q[3], norm), FDiv(q[4], norm)>>)

cross(a, b) ==
  << FSub(FMul(a[2], b[3]), FMul(a[3], b[2])),
     FSub(FMul(a[3], b[1]), FMul(a[1], b[3])),
     FSub(FMul(a[1], b[2]), FMul(a[2], b[1])) >>

matVecMul(mat, vec) ==
  << FAdd(FAdd(FMul(mat[1][1], vec[1]), FMul(mat[1][2], vec[2])), FMul(mat[1][3], vec[3])),
     FAdd(FAdd(FMul(mat[2][1], vec[1]), FMul(mat[2][2], vec[2])), FMul(mat[2][3], vec[3])),
     FAdd(FAdd(FMul(mat[3][1], vec[1]), FMul(mat[3][2], vec[2])), FMul(mat[3][3], vec[3])) >>

\* dynamics with the sign of gravity wrong
quadcopterDynamicsGravityUp(this, stateVec, controls) ==
  LET g == this.params.gravity
      mass == this.params.mass
      torque == <<controls[2], controls[3], controls[4]>>
      ox == stateVec[11]
      oy == stateVec[12]
      oz == stateVec[13]
      omega == <<ox, oy, oz>>
  IN  Let(normalizeQuaternion(<<stateVec[7], stateVec[8], stateVec[9], stateVec[10]>>),
          LAMBDA qNorm :
      Let(matVecMul(quatToRotationMatrix(qNorm), <<0, 0, controls[1]>>),
          LAMBDA thrustWorld :
      Let(cross(omega, matVecMul(this.inertiaMatrix, omega)), LAMBDA gyroscopicTorque :
      Let(matVecMul(this.inertiaInv,
                    << FSub(torque[1], gyroscopicTorque[1]),
                       FSub(torque[2], gyroscopicTorque[2]),
                       FSub(torque[3], gyroscopicTorque[3]) >>),
          LAMBDA angularAcceleration :
        << stateVec[4], stateVec[5], stateVec[6],
           FDiv(thrustWorld[1], mass),
           FDiv(thrustWorld[2], mass),
           FAdd(FDiv(thrustWorld[3], mass), g),
           FMul(Half, FSub(FSub(FMul(FNeg(qNorm[2]), ox), FMul(qNorm[3], oy)),
                           FMul(qNorm[4], oz))),
           FMul(Half, FSub(FAdd(FMul(qNorm[1], ox), FMul(qNorm[3], oz)),
                           FMul(qNorm[4], oy))),
           FMul(Half, FAdd(FSub(FMul(qNorm[1], oy), FMul(qNorm[2], oz)),
                           FMul(qNorm[4], ox))),
           FMul(Half, FSub(FAdd(FMul(qNorm[1], oz), FMul(qNorm[2], oy)),
                           FMul(qNorm[3], ox))),
           angularAcceleration[1], angularAcceleration[2], angularAcceleration[3] >>))))

quadcopterDynamics(this, stateVec, controls) ==
  LET g == this.params.gravity
      mass == this.params.mass
      thrustMagnitude == controls[1]
      torque == <<controls[2], controls[3], controls[4]>>
      vel == <<stateVec[4], stateVec[5], stateVec[6]>>
      q == <<stateVec[7], stateVec[8], stateVec[9], stateVec[10]>>
      ox == stateVec[11]
      oy == stateVec[12]
      oz == stateVec[13]
      omega == <<ox, oy, oz>>
      thrustBody == <<0, 0, thrustMagnitude>>
  IN  Let(normalizeQuaternion(q), LAMBDA qNorm :
      Let(matVecMul(quatToRotationMatrix(qNorm), thrustBody), LAMBDA thrustWorld :
      Let(cross(omega, matVecMul(this.inertiaMatrix, omega)), LAMBDA gyroscopicTorque :
      Let(matVecMul(this.inertiaInv,
                    << FSub(torque[1], gyroscopicTorque[1]),
                       FSub(torque[2], gyroscopicTorque[2]),
                       FSub(torque[3], gyroscopicTorque[3]) >>),
          LAMBDA angularAcceleration :
        << vel[1], vel[2], vel[3],
           FDiv(thrustWorld[1], mass),
           FDiv(thrustWorld[2], mass),
           FSub(FDiv(thrustWorld[3], mass), g),
           FMul(Half, FSub(FSub(FMul(FNeg(qNorm[2]), ox), FMul(qNorm[3], oy)),
                           FMul(qNorm[4], oz))),
           FMul(Half, FSub(FAdd(FMul(qNorm[1], ox), FMul(qNorm[3], oz)),
                           FMul(qNorm[4], oy))),
           FMul(Half, FAdd(FSub(FMul(qNorm[1], oy), FMul(qNorm[2], oz)),
                           FMul(qNorm[4], ox))),
           FMul(Half, FSub(FAdd(FMul(qNorm[1], oz), FMul(qNorm[2], oy)),
                           FMul(qNorm[3], ox))),
           angularAcceleration[1], angularAcceleration[2], angularAcceleration[3] >>))))

rk4Step(this, state, controls, dt) ==
  Let(quadcopterDynamics(this, state, controls), LAMBDA k1 :
  Let(quadcopterDynamics(this,
        Map13(LAMBDA i : FAdd(state[i], FMul(FMul(Half, dt), k1[i]))), controls),
      LAMBDA k2 :
  Let(quadcopterDynamics(this,
        Map13(LAMBDA i : FAdd(state[i], FMul(FMul(Half, dt), k2[i]))), controls),
      LAMBDA k3 :
  Let(quadcopterDynamics(this,
        Map13(LAMBDA i : FAdd(state[i], FMul(dt, k3[i]))), controls),
      LAMBDA k4 :
  Let(Map13(LAMBDA i :
        FAdd(state[i],
             FMul(FDiv(dt, Six),
                  FAdd(FAdd(FAdd(k1[i], FMul(Two, k2[i])), FMul(Two, k3[i])), k4[i])))),
      LAMBDA newState :
  Let(normalizeQuaternion(<<newState[7], newState[8], newState[9], newState[10]>>),
      LAMBDA qNorm :
        Map13(LAMBDA i : IF i \in 7..10 THEN qNorm[i - 6] ELSE newState[i])))))))

\* one call this.quadcopterDynamics(stateVec, controls)
Call(stateVec, controls) == [stateVec |-> stateVec, controls |-> controls]

\* an integrator that evaluates the dynamics once (forward Euler)
rk4CallsOnce(this, state, controls, dt) == <<Call(state, controls)>>

\* the calls of quadcopterDynamics that rk4Step makes, in order
rk4Calls(this, state, controls, dt) ==
  Let(quadcopterDynamics(this, state, controls), LAMBDA k1 :
  Let(Map13(LAMBDA i : FAdd(state[i], FMul(FMul(Half, dt), k1[i]))), LAMBDA state2 :
  Let(quadcopterDynamics(this, state2, controls), LAMBDA k2 :
  Let(Map13(LAMBDA i : FAdd(state[i], FMul(FMul(Half, dt), k2[i]))), LAMBDA state3 :
  Let(quadcopterDynamics(this, state3, controls), LAMBDA k3 :
      << Call(state, controls), Call(state2, controls), Call(state3, controls),
         Call(Map13(LAMBDA i : FAdd(state[i], FMul(dt, k3[i]))), controls) >>)))))

\* a step() that takes the default for every falsy dt (dt || this.params.dt)
stepValuesFalsyDt(this, stateArray, quaternion, action, dt) ==
  Let(IF dt = Null \/ dt = 0 \/ dt = NaN THEN this.params.dt ELSE dt, LAMBDA timestep :
  Let(normalizedControlsToForces(this, action), LAMBDA controls :
  Let(quadcopterDynamics(this, stateArray, controls), LAMBDA initialDerivatives :
  Let(matVecMul(quatToRotationMatrix(quaternion), <<0, 0, controls[1]>>),
      LAMBDA thrustWorld :
  Let(rk4Step(this, stateArray, controls, timestep), LAMBDA newStateArray :
      [ timestep |-> timestep,
        controls |-> controls,
        newStateArray |-> newStateArray,
        calls |-> <<Call(stateArray, controls)>>
                    \o rk4Calls(this, stateArray, controls, timestep),
        debug |-> [ thrustWorld |-> thrustWorld,
                    acceleration |-> <<initialDerivatives[4], initialDerivatives[5],
                                       initialDerivatives[6]>>,
                    angularAcceleration |-> <<initialDerivatives[11], initialDerivatives[12],
                                              initialDerivatives[13]>> ] ])))))

\* The values step() computes from the flattened state: the new state
\* vector and the debug bundle
stepValues(this, stateArray, quaternion, action, dt) ==
  Let(IF dt = Null THEN this.params.dt ELSE dt, LAMBDA timestep :
  Let(normalizedControlsToForces(this, action), LAMBDA controls :
  Let(quadcopterDynamics(this, stateArray, controls), LAMBDA initialDerivatives :
  Let(matVecMul(quatToRotationMatrix(quaternion), <<0, 0, controls[1]>>),
      LAMBDA thrustWorld :
  Let(rk4Step(this, stateArray, controls, timestep), LAMBDA newStateArray :
      [ timestep |-> timestep,
        controls |-> controls,
        newStateArray |-> newStateArray,
        calls |-> <<Call(stateArray, controls)>>
                    \o rk4Calls(this, stateArray, controls, timestep),
        debug |-> [ thrustWorld |-> thrustWorld,
                    acceleration |-> <<initialDerivatives[4], initialDerivatives[5],
                                       initialDerivatives[6]>>,
                    angularAcceleration |-> <<initialDerivatives[11], initialDerivatives[12],
                                              initialDerivatives[13]>> ] ])))))

\* The values the compiled variant of step() computes: the debug bundle is
\* derived after the integration, from the new quaternion and the new
\* angular velocity
stepValuesCompiled(this, stateArray, action, dt) ==
  Let(IF dt = Null THEN this.params.dt ELSE dt, LAMBDA timestep :
  Let(normalizedControlsToForces(this, action), LAMBDA controls :
  Let(rk4Step(this, stateArray, controls, timestep), LAMBDA newStateArray :
  Let(<<newStateArray[11], newStateArray[12], newStateArray[13]>>,
      LAMBDA newAngularVelocity :
  Let(matVecMul(quatToRotationMatrix(<<newStateArray[7], newStateArray[8],
                                       newStateArray[9], newStateArray[10]>>),
                <<0, 0, controls[1]>>),
      LAMBDA thrustWorld :
  Let(cross(newAngularVelocity, matVecMul(this.inertiaMatrix, newAngularVelocity)),
      LAMBDA gyroscopicTorque :
      [ timestep |-> timestep,
        controls |-> controls,
        newStateArray |-> newStateArray,
        calls |-> rk4Calls(this, stateArray, controls, timestep),
        debug |-> [ thrustWorld |-> thrustWorld,
                    acceleration |-> << FDiv(thrustWorld[1], this.params.mass),
                                        FDiv(thrustWorld[2], this.params.mass),
                                        FSub(FDiv(thrustWorld[3], this.params.mass),
                                             this.params.gravity) >>,
                    angularAcceleration |->
                      matVecMul(this.inertiaInv,
                                << FSub(controls[2], gyroscopicTorque[1]),
                                   FSub(controls[3], gyroscopicTorque[2]),
                                   FSub(controls[4], gyroscopicTorque[3]) >>) ] ]))))))

\* ------------------------------------------------------------------------
\* The heap: state objects and arrays have identity
\* ------------------------------------------------------------------------
NumObjs == 8
NumArrs == 40

Engines == {1, 2}
Fields == <<"position", "velocity", "quaternion", "angularVelocity">>
FieldSet == {Fields[i] : i \in 1..4}
Handles == {"S", "G", "R"}

NoObj == [position |-> 0, velocity |-> 0, quaternion |-> 0, angularVelocity |-> 0]
EmptyHeap == [objs |-> [o \in 1..NumObjs |-> NoObj], arrs |-> [a \in 1..NumArrs |-> <<>>]]

\* new Array / array literal: the first unused array cell
AllocArr(H, vals) ==
  Let(CHOOSE x \in 1..NumArrs :
        H.arrs[x] = <<>> /\ \A y \in 1..(x - 1) : H.arrs[y] # <<>>,
      LAMBDA a : [heap |-> [H EXCEPT !.arrs[a] = vals], ref |-> a])

\* object literal { position, velocity, quaternion, angularVelocity }
AllocObj(H, rec) ==
  Let(CHOOSE x \in 1..NumObjs :
        H.objs[x] = NoObj /\ \A y \in 1..(x - 1) : H.objs[y] # NoObj,
      LAMBDA o : [heap |-> [H EXCEPT !.objs[o] = rec], ref |-> o])

\* a state object literal with four array literals
AllocState(H, val) ==
  Let(AllocArr(H, val.position), LAMBDA A1 :
  Let(AllocArr(A1.heap, val.velocity), LAMBDA A2 :
  Let(AllocArr(A2.heap, val.quaternion), LAMBDA A3 :
  Let(AllocArr(A3.heap, val.angularVelocity), LAMBDA A4 :
      AllocObj(A4.heap, [position |-> A1.ref, velocity |-> A2.ref,
                         quaternion |-> A3.ref, angularVelocity |-> A4.ref])))))

\* the numbers reachable from a state object
DeepVal(H, o) == [f \in FieldSet |-> H.arrs[H.objs[o][f]]]

\* a flattening that puts the velocity before the position
FlattenVelocityFirst(H, o) ==
  H.arrs[H.objs[o].velocity] \o H.arrs[H.objs[o].position]
    \o H.arrs[H.objs[o].quaternion] \o H.arrs[H.objs[o].angularVelocity]

\* [...s.position, ...s.velocity, ...s.quaternion, ...s.angularVelocity]
Flatten(H, o) ==
  H.arrs[H.objs[o].position] \o H.arrs[H.objs[o].velocity]
    \o H.arrs[H.objs[o].quaternion] \o H.arrs[H.objs[o].angularVelocity]

\* a "copy" that hands back the object it was given
JsonCloneByReference(H, o) == [heap |-> H, ref |-> o]

\* JSON.parse(JSON.stringify(state)): a new object with new arrays, every
\* number written and read back
JsonClone(H, o) ==
  AllocState(H, [f \in FieldSet |->
                   [i \in 1..Len(H.arrs[H.objs[o][f]]) |-> JsonNumber(H.arrs[H.objs[o][f]][i])]])

\* Garbage collection.  Cells that no reference leads to are dropped and
\* the live cells are renumbered in the order in which the references
\* below reach them, so that a heap has one representation
RECURSIVE Dedup(_, _, _)
Dedup(seq, i, acc) ==
  IF i > Len(seq) THEN acc
  ELSE IF seq[i] = 0 \/ \E j \in 1..Len(acc) : acc[j] = seq[i]
       THEN Dedup(seq, i + 1, acc)
       ELSE Dedup(seq, i + 1, Append(acc, seq[i]))

Pos(seq, x) == IF x = 0 THEN 0 ELSE CHOOSE i \in 1..Len(seq) : seq[i] = x

RECURSIVE FieldRefs(_, _, _)
FieldRefs(H, os, i) ==
  IF i > Len(os) THEN <<>>
  ELSE <<H.objs[os[i]].position, H.objs[os[i]].velocity,
         H.objs[os[i]].quaternion, H.objs[os[i]].angularVelocity>>
         \o FieldRefs(H, os, i + 1)

Collect(H, E, Hd, P) ==
  Let(Dedup(<<E[1].state, E[2].state, Hd.S, Hd.G, Hd.G2, Hd.R>>, 1, <<>>), LAMBDA os :
  Let(Dedup(FieldRefs(H, os, 1)
              \o <<E[1].params.inertia, E[2].params.inertia, P.inertia, Hd.A,
                   Hd.P.inertia>>,
            1, <<>>),
      LAMBDA as :
      [heap |->
         [objs |-> [o \in 1..NumObjs |->
                      IF o <= Len(os)
                      THEN [position |-> Pos(as, H.objs[os[o]].position),
                            velocity |-> Pos(as, H.objs[os[o]].velocity),
                            quaternion |-> Pos(as, H.objs[os[o]].quaternion),
                            angularVelocity |-> Pos(as, H.objs[os[o]].angularVelocity)]
                      ELSE NoObj],
          arrs |-> [a \in 1..NumArrs |-> IF a <= Len(as) THEN H.arrs[as[a]] ELSE <<>>]],
       eng |-> [e \in Engines |->
                  [E[e] EXCEPT !.state = Pos(os, @), !.params.inertia = Pos(as, @)]],
       held |-> [S |-> Pos(os, Hd.S), G |-> Pos(os, Hd.G), G2 |-> Pos(os, Hd.G2),
                 R |-> Pos(os, Hd.R), A |-> Pos(as, Hd.A),
                 P |-> [Hd.P EXCEPT !.inertia = Pos(as, @)]],
       callerP |-> [P EXCEPT !.inertia = Pos(as, @)]]))

\* ------------------------------------------------------------------------
\* Engine construction
\* ------------------------------------------------------------------------
ParamNames == {"mass", "inertia", "gravity", "dt", "armLength",
               "thrustCoefficient", "torqueCoefficient", "maxMotorSpeed"}

\* thrustCoefficient and torqueCoefficient are held in units of 1e-11
defaultParams ==
  [mass |-> Num(25, 10),
   inertia |-> <<Num(23, 10000), Num(23, 10000), Num(40, 10000)>>,
   gravity |-> Num(981, 100),
   dt |-> Num(4, 100),
   armLength |-> Num(25, 100),
   thrustCoefficient |-> 854858,
   torqueCoefficient |-> 21370,
   maxMotorSpeed |-> Num(10000, 1)]

\* a constructor that keeps the defaults whatever the caller supplies
mergeParamsDefaultsOnly(H, p) ==
  Let(AllocArr(H, defaultParams.inertia),
      LAMBDA I : [heap |-> I.heap,
                  params |-> [f \in ParamNames |->
                                IF f = "inertia" THEN I.ref ELSE defaultParams[f]]])

\* { ...defaults, ...params }: a supplied inertia array is stored by reference
mergeParams(H, p) ==
  Let(IF "inertia" \in p.has
      THEN [heap |-> H, ref |-> p.inertia]
      ELSE AllocArr(H, defaultParams.inertia),
      LAMBDA I :
      [heap |-> I.heap,
       params |-> [f \in ParamNames |->
                     IF f = "inertia" THEN I.ref
                     ELSE IF f \in p.has THEN p[f] ELSE defaultParams[f]]])

\* an inverse that is 0 where the inertia component is 0
inertiaMatricesGuarded(inertia) ==
  [inertiaMatrix |-> << <<inertia[1], 0, 0>>,
                        <<0, inertia[2], 0>>,
                        <<0, 0, inertia[3]>> >>,
   inertiaInv |-> [i \in 1..3 |-> [j \in 1..3 |->
                     IF i = j /\ inertia[i] # 0 THEN FDiv(One, inertia[i]) ELSE 0]]]

\* this.inertiaMatrix and this.inertiaInv
inertiaMatrices(inertia) ==
  [inertiaMatrix |-> << <<inertia[1], 0, 0>>,
                        <<0, inertia[2], 0>>,
                        <<0, 0, inertia[3]>> >>,
   inertiaInv |-> << <<FDiv(One, inertia[1]), 0, 0>>,
                     <<0, FDiv(One, inertia[2]), 0>>,
                     <<0, 0, FDiv(One, inertia[3])>> >>]

\* new QuadcopterPhysics(initialState, params)
constructor(H, initialState, p) ==
  Let(JsonClone(H, initialState), LAMBDA S :
  Let(mergeParams(S.heap, p), LAMBDA M :
  Let(inertiaMatrices(M.heap.arrs[M.params.inertia]), LAMBDA I :
      [heap |-> M.heap,
       this |-> [state |-> S.ref,
                 params |-> M.params,
                 inertiaMatrix |-> I.inertiaMatrix,
                 inertiaInv |-> I.inertiaInv]])))

\* ------------------------------------------------------------------------
\* State
\* ------------------------------------------------------------------------
VARIABLES
  heap,     \* the objects and arrays of the JavaScript heap
  eng,      \* the QuadcopterPhysics instances: state reference, params, matrices
  held,     \* references the caller holds: S (a state it built), G and G2
            \* (the last two getState() results), R (last step() result),
            \* A (last getStateArray() result), P (last getParams() result)
  callerP,  \* the params object the caller built
  last,     \* per engine: inputs and outputs of its most recent step() call
  lastOp,   \* the most recent operation
  used,     \* how many operations of each bounded kind have run
  ui,       \* the playback state of SingleMode / MultiMode and their Quadcopters
  hook,     \* the state of usePrecomputedSimulation and its computeTrajectory calls
  ctl,      \* the SimulationController and its step() / reset() calls in flight
  fn        \* the argument and the result of the last pure function applied

physvars == <<heap, eng, held, callerP, last, lastOp, used>>
appvars == <<ui, hook, ctl, fn>>
vars == <<heap, eng, held, callerP, last, lastOp, used, ui, hook, ctl, fn>>

\* a component that is not mounted / an object that is not constructed
Absent == [on |-> FALSE]

\* ------------------------------------------------------------------------
\* Bounds and inputs
\* ------------------------------------------------------------------------
MaxSteps == 2
MaxWrites == 1

V3(a, b, c) == <<Num(a, 1), Num(b, 1), Num(c, 1)>>

StateInputs ==
  << [position |-> V3(0, 0, 0), velocity |-> V3(0, 0, 0),
      quaternion |-> <<One, 0, 0, 0>>, angularVelocity |-> V3(0, 0, 0)],
     [position |-> V3(1, 2, 3), velocity |-> V3(4, 5, 6),
      quaternion |-> <<Num(7071, 10000), Num(7071, 10000), 0, 0>>,
      angularVelocity |-> V3(7, 8, 9)],
     [position |-> V3(0, 0, 0), velocity |-> V3(0, 0, 0),
      quaternion |-> <<Two, 0, 0, 0>>, angularVelocity |-> V3(0, 0, 0)],
     [position |-> V3(0, 0, 0), velocity |-> V3(0, 0, 0),
      quaternion |-> <<0, 0, 0, 0>>, angularVelocity |-> V3(0, 0, 0)],
     [position |-> <<NaN, 0, 0>>, velocity |-> V3(0, 0, 0),
      quaternion |-> <<One, 0, 0, 0>>, angularVelocity |-> V3(0, 0, 0)],
     [position |-> V3(0, 0, 0), velocity |-> V3(0, 0, 0),
      quaternion |-> <<0, Two, 0, 0>>, angularVelocity |-> V3(0, 0, 0)] >>

NoParams ==
  [has |-> {}, mass |-> Null, inertia |-> <<>>, gravity |-> Null, dt |-> Null,
   armLength |-> Null, thrustCoefficient |-> Null, torqueCoefficient |-> Null,
   maxMotorSpeed |-> Null]

\* undefined, two partial params objects, one with a zero inertia
\* component and one with a negative inertia component
ParamInputs ==
  << NoParams,
     [NoParams EXCEPT !.has = {"mass", "inertia", "dt", "armLength"},
                      !.mass = Num(12, 10),
                      !.inertia = <<Num(1, 100), Num(1, 100), Num(2, 100)>>,
                      !.dt = Num(2, 100),
                      !.armLength = Num(3, 10)],
     [NoParams EXCEPT !.has = {"mass"}, !.mass = Num(427, 1000)],
     [NoParams EXCEPT !.has = {"inertia"},
                      !.inertia = <<0, Num(1, 100), Num(2, 100)>>],
     [NoParams EXCEPT !.has = {"inertia"},
                      !.inertia = <<Num(1, 100), 0 - Num(1, 100), Num(2, 100)>>] >>

ActionInputs ==
  << <<0, 0, 0, 0>>,
     <<Num(5, 10), Num(1, 10), Num(2, 10), Num(3, 10)>>,
     <<0 - One, 0, 0, 0>>,
     <<One, One, 0 - One, One>>,
     <<0 - Two, Num(3, 1), Num(-3, 1), Two>> >>

WriteValue == Num(9, 1)

NoStep ==
  [called |-> FALSE, action |-> <<>>, dt |-> Null, params |-> <<>>, pre |-> <<>>,
   timestep |-> Null, controls |-> <<>>, post |-> <<>>, debug |-> <<>>, calls |-> <<>>,
   before |-> 0]

NoOp == [op |-> "construct", e |-> 0, h |-> "", f |-> ""]

\* the caller's params literal: its inertia array is a heap array
AllocParams(H, lit) ==
  IF "inertia" \in lit.has
  THEN Let(AllocArr(H, lit.inertia),
           LAMBDA I : [heap |-> I.heap, p |-> [lit EXCEPT !.inertia = I.ref]])
  ELSE [heap |-> H, p |-> [lit EXCEPT !.inertia = 0]]

\* what getState(), getStateArray() and the next step() read
EngineView(H, E, e) == Flatten(H, E[e].state)

\* the configuration by value
ParamsVal(H, E, e) ==
  <<[E[e].params EXCEPT !.inertia = H.arrs[E[e].params.inertia]],
    E[e].inertiaMatrix, E[e].inertiaInv>>

\* the next state holds heap H, engines E, caller references Hd and caller
\* params P, garbage collected
Commit(H, E, Hd, P) ==
  \E N \in {Collect(H, E, Hd, P)} :
    /\ heap' = N.heap
    /\ eng' = N.eng
    /\ held' = N.held
    /\ callerP' = N.callerP

\* ------------------------------------------------------------------------
\* Init: the caller builds a state literal and a params literal and
\* constructs both engines from them
\* ------------------------------------------------------------------------
PhysFrom(SI, PI) ==
  \E s \in SI, p \in PI :
    \E S \in {AllocState(EmptyHeap, StateInputs[s])} :
    \E P \in {AllocParams(S.heap, ParamInputs[p])} :
    \E E1 \in {constructor(P.heap, S.ref, P.p)} :
    \E E2 \in {constructor(E1.heap, S.ref, P.p)} :
    \E N \in {Collect(E2.heap, [e \in Engines |-> IF e = 1 THEN E1.this ELSE E2.this],
                      [S |-> S.ref, G |-> 0, G2 |-> 0, R |-> 0, A |-> 0,
                       P |-> [NoParams EXCEPT !.inertia = 0]], P.p)} :
        /\ heap = N.heap
        /\ eng = N.eng
        /\ held = N.held
        /\ callerP = N.callerP
        /\ last = [e \in Engines |-> NoStep]
        /\ lastOp = NoOp
        /\ used = [steps |-> [e \in Engines |-> 0], writes |-> 0]

\* engines only: no component is mounted, no controller constructed
InitFrom(SI, PI) ==
  /\ PhysFrom(SI, PI)
  /\ ui = Absent
  /\ hook = Absent
  /\ ctl = Absent
  /\ fn = Absent

Init == InitFrom(DOMAIN StateInputs, DOMAIN ParamInputs)

\* ------------------------------------------------------------------------
\* Engine operations
\* ------------------------------------------------------------------------
\* physics = new QuadcopterPhysics(S, P)
construct(e) ==
  /\ \E C \in {constructor(heap, held.S, callerP)} :
         /\ last' = [last EXCEPT ![e] = NoStep]
         /\ UNCHANGED appvars
         /\ lastOp' = [op |-> "construct", e |-> e, h |-> "S", f |-> ""]
         /\ UNCHANGED used
         /\ Commit(C.heap, [eng EXCEPT ![e] = C.this], held, callerP)

\* the arrays and objects step() creates: four arrays, the new this.state
\* object and the returned object, both holding the same four arrays
stepObjects(H, n) ==
  Let(AllocArr(H, <<n[1], n[2], n[3]>>), LAMBDA newPosition :
  Let(AllocArr(newPosition.heap, <<n[4], n[5], n[6]>>), LAMBDA newVelocity :
  Let(AllocArr(newVelocity.heap, <<n[7], n[8], n[9], n[10]>>), LAMBDA newQuaternion :
  Let(AllocArr(newQuaternion.heap, <<n[11], n[12], n[13]>>), LAMBDA newAngularVelocity :
  Let([position |-> newPosition.ref, velocity |-> newVelocity.ref,
       quaternion |-> newQuaternion.ref,
       angularVelocity |-> newAngularVelocity.ref],
      LAMBDA fields :
  Let(AllocObj(newAngularVelocity.heap, fields), LAMBDA newState :
  Let(AllocObj(newState.heap, fields), LAMBDA result :
      [heap |-> result.heap, state |-> newState.ref, result |-> result.ref])))))))

\* a step() whose state lives in one variable shared by every instance
stepSharedState(e, action, dt) ==
  /\ used.steps[e] < MaxSteps
  /\ \E v \in {stepValues(eng[e], Flatten(heap, eng[1].state),
                          heap.arrs[heap.objs[eng[1].state].quaternion], action, dt)} :
     \E r \in {stepObjects(heap, v.newStateArray)} :
         /\ last' = [last EXCEPT ![e] =
                       [called |-> TRUE, action |-> action, dt |-> dt,
                        params |-> ParamsVal(heap, eng, e),
                        pre |-> Flatten(heap, eng[e].state),
                        timestep |-> v.timestep, controls |-> v.controls,
                        post |-> v.newStateArray, debug |-> v.debug,
                        calls |-> v.calls,
                        before |-> used.steps[e]]]
         /\ UNCHANGED appvars
         /\ lastOp' = [op |-> "step", e |-> e, h |-> "R", f |-> ""]
         /\ used' = [used EXCEPT !.steps[e] = @ + 1]
         /\ Commit(r.heap, [eng EXCEPT ![e].state = r.state],
                   [held EXCEPT !.R = r.result], callerP)

\* physics.step(action, dt)
step(e, action, dt) ==
  /\ used.steps[e] < MaxSteps
  /\ \E v \in {stepValues(eng[e], Flatten(heap, eng[e].state),
                          heap.arrs[heap.objs[eng[e].state].quaternion], action, dt)} :
     \E r \in {stepObjects(heap, v.newStateArray)} :
         /\ last' = [last EXCEPT ![e] =
                       [called |-> TRUE, action |-> action, dt |-> dt,
                        params |-> ParamsVal(heap, eng, e),
                        pre |-> Flatten(heap, eng[e].state),
                        timestep |-> v.timestep, controls |-> v.controls,
                        post |-> v.newStateArray, debug |-> v.debug,
                        calls |-> v.calls,
                        before |-> used.steps[e]]]
         /\ UNCHANGED appvars
         /\ lastOp' = [op |-> "step", e |-> e, h |-> "R", f |-> ""]
         /\ used' = [used EXCEPT !.steps[e] = @ + 1]
         /\ Commit(r.heap, [eng EXCEPT ![e].state = r.state],
                   [held EXCEPT !.R = r.result], callerP)

\* physics.step(action, dt) of the compiled variant of the class
stepCompiled(e, action, dt) ==
  /\ used.steps[e] < MaxSteps
  /\ \E v \in {stepValuesCompiled(eng[e], Flatten(heap, eng[e].state), action, dt)} :
     \E r \in {stepObjects(heap, v.newStateArray)} :
         /\ last' = [last EXCEPT ![e] =
                       [called |-> TRUE, action |-> action, dt |-> dt,
                        params |-> ParamsVal(heap, eng, e),
                        pre |-> Flatten(heap, eng[e].state),
                        timestep |-> v.timestep, controls |-> v.controls,
                        post |-> v.newStateArray, debug |-> v.debug,
                        calls |-> v.calls,
                        before |-> used.steps[e]]]
         /\ UNCHANGED appvars
         /\ lastOp' = [op |-> "step", e |-> e, h |-> "R", f |-> ""]
         /\ used' = [used EXCEPT !.steps[e] = @ + 1]
         /\ Commit(r.heap, [eng EXCEPT ![e].state = r.state],
                   [held EXCEPT !.R = r.result], callerP)

\* G = physics.getState()
getState(e) ==
  /\ \E C \in {JsonClone(heap, eng[e].state)} :
         /\ UNCHANGED appvars
         /\ lastOp' = [op |-> "getState", e |-> e, h |-> "G", f |-> ""]
         /\ UNCHANGED <<last, used>>
         /\ Commit(C.heap, eng, [held EXCEPT !.G = C.ref, !.G2 = held.G], callerP)

\* a reset() that installs the copy in every instance
resetAll(e, h) ==
  /\ held[h] # 0
  /\ \E C \in {JsonClone(heap, held[h])} :
         /\ UNCHANGED appvars
         /\ lastOp' = [op |-> "reset", e |-> e, h |-> h, f |-> ""]
         /\ UNCHANGED <<last, used>>
         /\ Commit(C.heap, [x \in Engines |-> [eng[x] EXCEPT !.state = C.ref]],
                   held, callerP)

\* a reset() that keeps the state the engine has
resetIgnored(e, h) ==
  /\ held[h] # 0
  /\ UNCHANGED appvars
  /\ lastOp' = [op |-> "reset", e |-> e, h |-> h, f |-> ""]
  /\ UNCHANGED <<heap, eng, held, callerP, last, used>>

\* physics.reset(h) for a state-shaped object h the caller holds
reset(e, h) ==
  /\ held[h] # 0
  /\ \E C \in {JsonClone(heap, held[h])} :
         /\ UNCHANGED appvars
         /\ lastOp' = [op |-> "reset", e |-> e, h |-> h, f |-> ""]
         /\ UNCHANGED <<last, used>>
         /\ Commit(C.heap, [eng EXCEPT ![e].state = C.ref], held, callerP)

\* ------------------------------------------------------------------------
\* Caller operations
\* ------------------------------------------------------------------------
\* h[f][0] = WriteValue
setElem(h, f) ==
  /\ held[h] # 0
  /\ used.writes < MaxWrites
  /\ heap.arrs[heap.objs[held[h]][f]][1] # WriteValue
  /\ heap' = [heap EXCEPT !.arrs[heap.objs[held[h]][f]][1] = WriteValue]
  /\ UNCHANGED appvars
  /\ lastOp' = [op |-> "setElem", e |-> 0, h |-> h, f |-> f]
  /\ used' = [used EXCEPT !.writes = @ + 1]
  /\ UNCHANGED <<eng, held, callerP, last>>

\* h[f] = [WriteValue, ...]
setField(h, f) ==
  /\ held[h] # 0
  /\ used.writes < MaxWrites
  /\ \E A \in {AllocArr(heap, [i \in 1..Len(heap.arrs[heap.objs[held[h]][f]]) |-> WriteValue])} :
         /\ UNCHANGED appvars
         /\ lastOp' = [op |-> "setField", e |-> 0, h |-> h, f |-> f]
         /\ used' = [used EXCEPT !.writes = @ + 1]
         /\ UNCHANGED last
         /\ Commit([A.heap EXCEPT !.objs[held[h]][f] = A.ref], eng, held, callerP)

\* A = physics.getStateArray()
getStateArray(e) ==
  /\ \E C \in {AllocArr(heap, Flatten(heap, eng[e].state))} :
         /\ UNCHANGED appvars
         /\ lastOp' = [op |-> "getStateArray", e |-> e, h |-> "A", f |-> ""]
         /\ UNCHANGED <<last, used>>
         /\ Commit(C.heap, eng, [held EXCEPT !.A = C.ref], callerP)

\* A[i - 1] = WriteValue on the array getStateArray() returned
setArr(i) ==
  /\ held.A # 0
  /\ used.writes < MaxWrites
  /\ heap.arrs[held.A][i] # WriteValue
  /\ heap' = [heap EXCEPT !.arrs[held.A][i] = WriteValue]
  /\ UNCHANGED appvars
  /\ lastOp' = [op |-> "setArr", e |-> 0, h |-> "A", f |-> ""]
  /\ used' = [used EXCEPT !.writes = @ + 1]
  /\ UNCHANGED <<eng, held, callerP, last>>

\* P = physics.getParams(): a new object with the fields of this.params,
\* the inertia field being the reference this.params holds
getParams(e) ==
  /\ UNCHANGED appvars
  /\ lastOp' = [op |-> "getParams", e |-> e, h |-> "P", f |-> ""]
  /\ UNCHANGED <<last, used>>
  /\ Commit(heap, eng, [held EXCEPT !.P = [has |-> ParamNames] @@ eng[e].params], callerP)

\* the two params objects a caller can hold: the one it passed to the
\* constructor and the one getParams() returned
ParamsHandles == {"callerP", "P"}
ParamsOf(h) == IF h = "callerP" THEN callerP ELSE held.P

\* h[f] = WriteValue for a scalar field f
setParam(h, f) ==
  /\ h = "P" => held.P.has # {}
  /\ used.writes < MaxWrites
  /\ ParamsOf(h)[f] # WriteValue
  /\ IF h = "callerP"
     THEN /\ callerP' = [callerP EXCEPT ![f] = WriteValue, !.has = @ \cup {f}]
          /\ UNCHANGED held
     ELSE /\ held' = [held EXCEPT !.P[f] = WriteValue]
          /\ UNCHANGED callerP
  /\ UNCHANGED appvars
  /\ lastOp' = [op |-> "setParam", e |-> 0, h |-> h, f |-> f]
  /\ used' = [used EXCEPT !.writes = @ + 1]
  /\ UNCHANGED <<heap, eng, last>>

\* h.inertia[i - 1] = WriteValue
setInertiaElem(h, i) ==
  /\ ParamsOf(h).inertia # 0
  /\ used.writes < MaxWrites
  /\ heap.arrs[ParamsOf(h).inertia][i] # WriteValue
  /\ heap' = [heap EXCEPT !.arrs[ParamsOf(h).inertia][i] = WriteValue]
  /\ UNCHANGED appvars
  /\ lastOp' = [op |-> "setInertiaElem", e |-> 0, h |-> h, f |-> "inertia"]
  /\ used' = [used EXCEPT !.writes = @ + 1]
  /\ UNCHANGED <<eng, held, callerP, last>>

\* ------------------------------------------------------------------------
\* Playback: SingleMode / MultiMode and the frame loop of Quadcopter
\* ------------------------------------------------------------------------
\* quadcopters of MultiMode, points of the longest trajectory, time units
\* between two trajectory points, time units one animation frame can add
NumQuads == 2
MaxTrajLen == 4
TickDt == 2
FrameDeltas == {1, 3}

Modes == {"single", "multi"}
QuadsOf(mode) == IF mode = "single" THEN 1 ELSE NumQuads

\* trajectory[i].timestamp: computeTrajectory adds dt per point
Timestamp(i) == i * TickDt

\* no trajectory index read in this frame
NoRead == 0 - 1

\* the QuadcopterState fields playback uses and the refs of its Quadcopter
NewQuad == [isPlaying |-> FALSE, len |-> 0, currentFrame |-> 0,
            timeRef |-> 0, wasPlaying |-> FALSE]

\* the two effects of Quadcopter on [state.trajectory] and on
\* [state.isPlaying, state.currentFrame, state.trajectory]
quadEffects(q0, trajectoryChanged) ==
  Let(IF trajectoryChanged /\ q0.len > 0 /\ ~q0.wasPlaying
      THEN [q0 EXCEPT !.timeRef = 0, !.currentFrame = 0] ELSE q0, LAMBDA q :
      [q EXCEPT !.timeRef = IF q.isPlaying /\ ~q.wasPlaying /\ q.len > 0
                               /\ q.currentFrame < q.len
                            THEN Timestamp(q.currentFrame) ELSE @,
                !.wasPlaying = q.isPlaying])

\* the segment the loop of useFrame finds for time t
RECURSIVE findSegment(_, _, _)
findSegment(q, t, i) ==
  IF i >= q.len - 1 THEN q.currentFrame
  ELSE IF t >= Timestamp(i) /\ t < Timestamp(i + 1) THEN i
  ELSE findSegment(q, t, i + 1)

\* one call of the useFrame callback of a Quadcopter: the new refs and
\* state, the segment index whose points it read, whether playback ended
useFrame(q, delta) ==
  IF ~(q.isPlaying /\ q.len > 1) THEN [q |-> q, read |-> NoRead, ended |-> FALSE]
  ELSE Let(q.timeRef + delta, LAMBDA t :
       IF t >= Timestamp(q.len - 1)
       THEN [q |-> quadEffects([q EXCEPT !.isPlaying = FALSE, !.currentFrame = 0,
                                         !.timeRef = 0, !.wasPlaying = FALSE], FALSE),
             read |-> NoRead, ended |-> TRUE]
       ELSE Let(findSegment(q, t, q.currentFrame), LAMBDA segmentIndex :
                [q |-> [q EXCEPT !.timeRef = t, !.currentFrame = segmentIndex],
                 read |-> segmentIndex, ended |-> FALSE]))

\* SingleMode reads quadcopter.isPlaying, MultiMode its own isPlaying
Playing == IF ui.mode = "single" THEN ui.quads[1].isPlaying ELSE ui.isPlaying

\* SingleMode asks for quadcopter.trajectory.length > 0, MultiMode for
\* trajectories.length > 0
HasTrajectory ==
  IF ui.mode = "single" THEN ui.quads[1].len > 0 ELSE Len(ui.trajectories) > 0

NoReads == [i \in 1..Len(ui.quads) |-> NoRead]

\* the mode component is mounted
mount(mode) ==
  [on |-> TRUE, mode |-> mode,
   quads |-> [i \in 1..QuadsOf(mode) |-> NewQuad],
   isPlaying |-> FALSE, isPausedMidSimulation |-> FALSE, pausedFrame |-> 0,
   trajectories |-> <<>>, isComputing |-> FALSE,
   read |-> [i \in 1..QuadsOf(mode) |-> NoRead],
   ranToEnd |-> FALSE, event |-> "mount"]

\* handlePlayPause while not playing and paused mid-simulation: resume
resume ==
  /\ ui.on /\ ~ui.isComputing /\ ~Playing
  /\ ui.isPausedMidSimulation /\ HasTrajectory
  /\ ui' = [ui EXCEPT
              !.isPlaying = TRUE,
              !.quads = [i \in 1..Len(ui.quads) |->
                           quadEffects([ui.quads[i] EXCEPT
                                          !.isPlaying = TRUE,
                                          !.currentFrame = ui.pausedFrame], FALSE)],
              !.read = NoReads, !.ranToEnd = FALSE, !.event = "resume"]
  /\ UNCHANGED <<physvars, hook, ctl, fn>>

\* handlePlayPause while not playing, otherwise: the trajectories are reset
\* and the computation of new ones starts
startNew ==
  /\ ui.on /\ ~ui.isComputing /\ ~Playing
  /\ ~(ui.isPausedMidSimulation /\ HasTrajectory)
  /\ ui' = [ui EXCEPT !.trajectories = <<>>, !.isComputing = TRUE,
                      !.read = NoReads, !.ranToEnd = FALSE, !.event = "startNew"]
  /\ UNCHANGED <<physvars, hook, ctl, fn>>

\* the computation ends with one trajectory per quadcopter, handlePlayPause
\* continues after its await and the effect on [trajectories] hands the
\* trajectories to the quadcopters
computed(lens) ==
  /\ ui.on /\ ui.isComputing
  /\ ui' = [ui EXCEPT
              !.trajectories = lens, !.isComputing = FALSE,
              !.isPausedMidSimulation = FALSE, !.isPlaying = TRUE,
              !.quads = [i \in 1..Len(ui.quads) |->
                           quadEffects([ui.quads[i] EXCEPT
                                          !.len = lens[i], !.isPlaying = TRUE,
                                          !.currentFrame = 0], TRUE)],
              !.read = NoReads, !.ranToEnd = FALSE, !.event = "computed"]
  /\ UNCHANGED <<physvars, hook, ctl, fn>>

\* handlePlayPause while playing: pause
pause ==
  /\ ui.on /\ ~ui.isComputing /\ Playing
  /\ ui' = [ui EXCEPT
              !.pausedFrame = ui.quads[1].currentFrame,
              !.isPausedMidSimulation = TRUE, !.isPlaying = FALSE,
              !.quads = [i \in 1..Len(ui.quads) |->
                           quadEffects([ui.quads[i] EXCEPT !.isPlaying = FALSE], FALSE)],
              !.read = NoReads, !.ranToEnd = FALSE, !.event = "pause"]
  /\ UNCHANGED <<physvars, hook, ctl, fn>>

\* handleReset
handleReset ==
  /\ ui.on /\ ~ui.isComputing /\ ~Playing
  /\ ui.event # "reset"
  /\ ui' = [ui EXCEPT
              !.quads = [i \in 1..Len(ui.quads) |->
                           quadEffects([ui.quads[i] EXCEPT
                                          !.isPlaying = FALSE, !.len = 0,
                                          !.currentFrame = 0], TRUE)],
              !.isPlaying = FALSE, !.isPausedMidSimulation = FALSE,
              !.trajectories = <<>>,
              !.read = NoReads, !.ranToEnd = FALSE, !.event = "reset"]
  /\ UNCHANGED <<physvars, hook, ctl, fn>>

\* one animation frame: the useFrame callback of every Quadcopter runs with
\* the same delta, then the effect of MultiMode that clears isPlaying when
\* no quadcopter plays
frame(delta) ==
  /\ ui.on
  /\ \E i \in 1..Len(ui.quads) : ui.quads[i].isPlaying /\ ui.quads[i].len > 1
  /\ \E r \in {[i \in 1..Len(ui.quads) |-> useFrame(ui.quads[i], delta)]} :
       ui' = [ui EXCEPT
                !.quads = [i \in 1..Len(ui.quads) |-> r[i].q],
                !.read = [i \in 1..Len(ui.quads) |-> r[i].read],
                !.isPlaying = @ /\ \E i \in 1..Len(ui.quads) : r[i].q.isPlaying,
                !.ranToEnd = /\ \E i \in 1..Len(ui.quads) : r[i].ended
                             /\ \A i \in 1..Len(ui.quads) : ~r[i].q.isPlaying,
                !.event = "frame"]
  /\ UNCHANGED <<physvars, hook, ctl, fn>>

\* ------------------------------------------------------------------------
\* usePrecomputedSimulation: computeTrajectory and its asynchronous calls
\* ------------------------------------------------------------------------
NumCalls == 2

\* maxSteps of the hook's configuration (MAX_STEPS of SingleMode, bounded)
MaxHookSteps == 2

\* dt of the hook's configuration (DT of SingleMode)
HookDt == Num(4, 100)

\* const positionLimit = 4.0
positionLimit == Num(4, 1)

\* the initial states computeTrajectory is called with: hover at the
\* origin, a climb that leaves the box in one step, and a position
\* outside the box
HookInputs ==
  << <<0, 0, 0, 0, 0, 0, One, 0, 0, 0, 0, 0, 0>>,
     <<0, 0, Num(39, 10), 0, 0, Num(5, 1), One, 0, 0, 0, 0, 0, 0>>,
     <<Num(5, 1), 0, 0, 0, 0, 0, One, 0, 0, 0, 0, 0, 0>> >>

\* the actions the network answers with (tanh keeps them in [-1, 1])
InferredActions == {<<0, 0, 0, 0>>, <<One, 0, 0, 0>>}

\* manualThrottle: number = 1.0
manualThrottle == One

\* new QuadcopterPhysics(initialState): default params, the state a JSON copy
defaultPhysics ==
  [params |-> defaultParams,
   inertiaMatrix |-> inertiaMatrices(defaultParams.inertia).inertiaMatrix,
   inertiaInv |-> inertiaMatrices(defaultParams.inertia).inertiaInv]

JsonVec(v) == [i \in 1..Len(v) |-> JsonNumber(v[i])]

\* physicsRef.current.step(action, dt) applied to the engine's state vector
physicsStep(stateVec, action) ==
  stepValues(defaultPhysics, stateVec, <<stateVec[7], stateVec[8], stateVec[9], stateVec[10]>>,
             action, HookDt).newStateArray

\* a > b of JavaScript: false when either side is NaN
Greater(a, b) == a # NaN /\ b # NaN /\ ToNum(a) > ToNum(b)

\* a bounds test that never fires
outOfBoundsNever(stateVec) == FALSE

\* Math.abs(result.position[k]) > positionLimit on some axis
outOfBounds(stateVec) ==
  \E k \in 1..3 : Greater(Abs(ToNum(stateVec[k])), positionLimit)

NoCall ==
  [pc |-> "idle", initialState |-> <<>>, useAI |-> FALSE, points |-> <<>>,
   step |-> 0, currentTime |-> 0]

\* the hook after mounting: no engine, no inference session, no trajectory
mountHook ==
  [on |-> TRUE, physicsRef |-> <<>>, inferenceRef |-> FALSE,
   calls |-> [c \in 1..NumCalls |-> NoCall],
   trajectory |-> <<>>, publishedBy |-> 0, isComputing |-> FALSE,
   error |-> FALSE, event |-> "mount"]

\* setTrajectory(points) and the finally block
publish(h, c) ==
  [h EXCEPT !.trajectory = h.calls[c].points, !.publishedBy = c,
            !.calls[c].pc = "done", !.isComputing = FALSE]

RECURSIVE loopFrom(_, _)
RECURSIVE afterAction(_, _, _)
\* the head of the for loop of call c: leave the loop, suspend in
\* inferenceRef.current.infer(physicsRef.current.getStateArray()), or go on
\* with the manual action
loopFrom(h, c) ==
  IF h.calls[c].step >= MaxHookSteps THEN publish(h, c)
  ELSE IF h.calls[c].useAI /\ h.inferenceRef
       THEN [h EXCEPT !.calls[c].pc = "awaitInfer"]
       ELSE afterAction(h, c, <<manualThrottle, 0, 0, 0>>)

\* the rest of one iteration: step the engine physicsRef points to, push
\* the point, test the bounds
afterAction(h, c, action) ==
  Let(physicsStep(h.physicsRef, action), LAMBDA result :
  Let([h EXCEPT !.physicsRef = result,
                !.calls[c].currentTime = FAdd(@, HookDt),
                !.calls[c].points =
                   Append(@, [state |-> result, action |-> action,
                              timestamp |-> FAdd(h.calls[c].currentTime, HookDt)]),
                !.calls[c].step = @ + 1],
      LAMBDA g : IF outOfBounds(result) THEN publish(g, c) ELSE loopFrom(g, c)))

\* the code after the await of initializeAI (or from the start when useAI
\* is false): the initial point from physicsRef.current.getState(), then
\* the loop
startLoop(h, c) ==
  loopFrom([h EXCEPT !.calls[c].points =
                        <<[state |-> JsonVec(h.physicsRef), action |-> <<0, 0, 0, 0>>,
                           timestamp |-> 0]>>,
                     !.calls[c].currentTime = 0,
                     !.calls[c].step = 0], c)

\* computeTrajectory(initialState, useAI, manualThrottle) up to its first
\* await: initializePhysics replaces the engine physicsRef points to
computeTrajectory(c, initialState, useAI) ==
  /\ hook.on
  /\ hook.calls[c].pc = "idle"
  /\ \A d \in 1..(c - 1) : hook.calls[d].pc # "idle"
  /\ \E h \in {[hook EXCEPT !.isComputing = TRUE, !.error = FALSE,
                            !.physicsRef = JsonVec(initialState),
                            !.calls[c] = [NoCall EXCEPT !.initialState = initialState,
                                                        !.useAI = useAI,
                                                        !.pc = "awaitAI"],
                            !.event = "computeTrajectory"]} :
       hook' = IF useAI THEN h ELSE startLoop(h, c)
  /\ UNCHANGED <<physvars, ui, ctl, fn>>

\* the await of initializeAI() ends: ONNXInference.getInstance() resolved
\* or rejected (only a first initialisation can fail)
initializeAI(c, ok) ==
  /\ hook.on
  /\ hook.calls[c].pc = "awaitAI"
  /\ ok \/ ~hook.inferenceRef
  /\ hook' = IF ok
             THEN startLoop([hook EXCEPT !.inferenceRef = TRUE,
                                         !.event = "initializeAI"], c)
             ELSE [hook EXCEPT !.error = TRUE, !.isComputing = FALSE,
                               !.calls[c].pc = "done", !.event = "initializeAI"]
  /\ UNCHANGED <<physvars, ui, ctl, fn>>

\* the await of infer() ends with the network's action
infer(c, action) ==
  /\ hook.on
  /\ hook.calls[c].pc = "awaitInfer"
  /\ hook' = afterAction([hook EXCEPT !.event = "infer"], c, action)
  /\ UNCHANGED <<physvars, ui, ctl, fn>>

\* infer() rejects: the catch block takes the zero action
inferFailed(c) ==
  /\ hook.on
  /\ hook.calls[c].pc = "awaitInfer"
  /\ hook' = afterAction([hook EXCEPT !.event = "inferFailed"], c, <<0, 0, 0, 0>>)
  /\ UNCHANGED <<physvars, ui, ctl, fn>>

\* ------------------------------------------------------------------------
\* SimulationController: step() and reset() (built without reference data)
\* ------------------------------------------------------------------------
\* step() calls that can be in flight at the same time
NumStepCalls == 2

\* step() calls started in one behaviour
MaxStepCalls == 3

\* reset() calls in one behaviour
MaxResets == 1

\* dt: number = 0.04
controllerDt == Num(4, 100)

\* the default initial state of the constructor and of reset()
controllerInitialState ==
  <<0, 0, Num(25, 10), 0, 0, 0, One, 0, 0, 0, 0, 0, 0>>

\* this.physics.step(action, dt) applied to the engine's state vector
controllerPhysicsStep(stateVec, action) ==
  stepValues(defaultPhysics, stateVec,
             <<stateVec[7], stateVec[8], stateVec[9], stateVec[10]>>,
             action, controllerDt).newStateArray

NoStepCall == [pc |-> "idle", stateBefore |-> <<>>, stateArray |-> <<>>]

\* new SimulationController(modelPath, normalizerPath)
newController ==
  [on |-> TRUE, physics |-> JsonVec(controllerInitialState),
   currentStep |-> 0, history |-> <<>>,
   calls |-> [c \in 1..NumStepCalls |-> NoStepCall],
   returned |-> <<>>, started |-> 0, failed |-> 0, resets |-> 0,
   event |-> "new"]

\* a reset() that keeps the history
resetControllerKeepingHistory(k) ==
  [k EXCEPT !.currentStep = 0,
            !.physics = JsonVec(controllerInitialState),
            !.resets = @ + 1, !.event = "reset"]

\* the body of reset(): referenceData is null, so the default initial state
resetController(k) ==
  [k EXCEPT !.currentStep = 0, !.history = <<>>,
            !.physics = JsonVec(controllerInitialState),
            !.resets = @ + 1, !.event = "reset"]

\* step() up to its await: stateBefore and stateArray are read, infer() is
\* called
controllerStep(c) ==
  /\ ctl.on
  /\ ctl.calls[c].pc # "awaitInfer"
  /\ ctl.started < MaxStepCalls
  /\ ctl' = [ctl EXCEPT !.calls[c] = [pc |-> "awaitInfer",
                                      stateBefore |-> JsonVec(ctl.physics),
                                      stateArray |-> ctl.physics],
                        !.started = @ + 1, !.event = "step"]
  /\ UNCHANGED <<physvars, ui, hook, fn>>

\* the await of infer() ends with the network's action: the rest of step()
controllerInferred(c, action) ==
  /\ ctl.on
  /\ ctl.calls[c].pc = "awaitInfer"
  /\ \E physicsResult \in {controllerPhysicsStep(ctl.physics, action)} :
     \E stepRecord \in {[stepNumber |-> ctl.currentStep + 1,
                         stateBefore |-> ctl.calls[c].stateBefore,
                         stateAfter |-> physicsResult,
                         action |-> action,
                         inferredFrom |-> ctl.calls[c].stateArray]} :
       ctl' = [ctl EXCEPT !.physics = physicsResult,
                          !.history = Append(@, stepRecord),
                          !.currentStep = @ + 1,
                          !.returned = Append(@, stepRecord),
                          !.calls[c].pc = "done",
                          !.event = "stepReturned"]
  /\ UNCHANGED <<physvars, ui, hook, fn>>

\* infer() rejects: step() rejects at its await
controllerInferFailed(c) ==
  /\ ctl.on
  /\ ctl.calls[c].pc = "awaitInfer"
  /\ ctl' = [ctl EXCEPT !.calls[c].pc = "failed", !.failed = @ + 1,
                        !.event = "stepFailed"]
  /\ UNCHANGED <<physvars, ui, hook, fn>>

\* reset()
controllerReset ==
  /\ ctl.on
  /\ ctl.resets < MaxResets
  /\ ctl' = resetController(ctl)
  /\ UNCHANGED <<physvars, ui, hook, fn>>

\* ------------------------------------------------------------------------
\* Formations: the generators, getRandomFormation and getFormationByName.
\* A formation is the sequence of its entries; an entry is named by the
\* generator and the loop index that produced it (its coordinates are not
\* modelled).
\* ------------------------------------------------------------------------
MaxQuads == 20

\* const formationGenerators = [...]
formationGenerators ==
  << "generateCircleFormation", "generateCircleLookingDownFormation",
     "generateLineFormation", "generateGridFormation", "generateVFormation",
     "generateSpiralFormation", "generateDiamondFormation",
     "generateHelixFormation", "generateWaveFormation", "generateSphereFormation",
     "generateDiagonalCascadeFormation", "generateFigureEightFormation",
     "generateRandomChaosFormation", "generateUpsideDownGridFormation",
     "generateCornerConvergenceFormation", "generateVortexFormation",
     "generateWallFormation", "generateInfinityFormation",
     "generateDNAHelixFormation", "generateExpandingSphereFormation" >>

\* for (let i = 0; i < numQuads; i++) { ...; formation.push(...) }
loopFormation(generator, numQuads) ==
  [k \in 1..numQuads |-> [generator |-> generator, i |-> k - 1]]

\* the leader, then for (let i = 1; i < numQuads; i++) one entry each
generateVFormation(numQuads) ==
  <<[generator |-> "generateVFormation", i |-> 0]>>
    \o [k \in 1..(numQuads - 1) |-> [generator |-> "generateVFormation", i |-> k]]

\* the points of one edge of the diamond: lerpVectors(from, to, i / edgeQuads)
\* for i = from .. to
edgePoints(edge, from, to) ==
  [k \in 1..(to - from + 1) |-> [edge |-> edge, i |-> from + k - 1]]

\* the positions array of generateDiamondFormation for numQuads > 1
diamondPositions(numQuads) ==
  IF numQuads <= 4
  THEN <<[edge |-> "top", i |-> 0], [edge |-> "right", i |-> 0],
         [edge |-> "bottom", i |-> 0], [edge |-> "left", i |-> 0]>>
  ELSE Let(numQuads \div 4, LAMBDA edgeQuads :
       Let(numQuads % 4, LAMBDA remainder :
           edgePoints("top-right", 0, edgeQuads)
             \o edgePoints("right-bottom", 1, edgeQuads)
             \o edgePoints("bottom-left", 1, edgeQuads)
             \o edgePoints("left-top", 1,
                           edgeQuads + (IF remainder > 0 THEN 1 ELSE 0) - 1)))

\* generateDiamondFormation(numQuads): the first numQuads positions, as far
\* as there are positions
generateDiamondFormation(numQuads) ==
  IF numQuads = 1
  THEN <<[generator |-> "generateDiamondFormation", position |-> [edge |-> "centre", i |-> 0]]>>
  ELSE Let(diamondPositions(numQuads), LAMBDA positions :
           [k \in 1..(IF numQuads < Len(positions) THEN numQuads ELSE Len(positions)) |->
              [generator |-> "generateDiamondFormation", position |-> positions[k]]])

\* generator(numQuads)
generate(generator, numQuads) ==
  IF generator = "generateDiamondFormation" THEN generateDiamondFormation(numQuads)
  ELSE IF generator = "generateVFormation" THEN generateVFormation(numQuads)
  ELSE loopFormation(generator, numQuads)

\* Math.floor(Math.random() * formationGenerators.length)
RandomIndices == 0..(Len(formationGenerators) - 1)

\* the names getFormationByName is called with; "Diamond" and "other" stand
\* for a mixed-case name and for a name without a case label
FormationNames ==
  {"circle", "circlelookingdown", "circle-looking-down", "line", "grid", "v",
   "spiral", "diamond", "helix", "wave", "sphere", "diagonal", "cascade",
   "figure8", "figureeight", "chaos", "random", "upsidedown", "upside-down",
   "corner", "corners", "vortex", "tornado", "wall", "infinity", "dna",
   "dnahelix", "expanding", "expandingsphere", "Diamond", "other"}

\* name.toLowerCase() on the names above
toLowerCase(name) == IF name = "Diamond" THEN "diamond" ELSE name

\* the switch of getFormationByName: the generator of a name, "" for default
generatorOfName(name) ==
  CASE name = "circle" -> "generateCircleFormation"
    [] name \in {"circlelookingdown", "circle-looking-down"} ->
         "generateCircleLookingDownFormation"
    [] name = "line" -> "generateLineFormation"
    [] name = "grid" -> "generateGridFormation"
    [] name = "v" -> "generateVFormation"
    [] name = "spiral" -> "generateSpiralFormation"
    [] name = "diamond" -> "generateDiamondFormation"
    [] name = "helix" -> "generateHelixFormation"
    [] name = "wave" -> "generateWaveFormation"
    [] name = "sphere" -> "generateSphereFormation"
    [] name \in {"diagonal", "cascade"} -> "generateDiagonalCascadeFormation"
    [] name \in {"figure8", "figureeight"} -> "generateFigureEightFormation"
    [] name \in {"chaos", "random"} -> "generateRandomChaosFormation"
    [] name \in {"upsidedown", "upside-down"} -> "generateUpsideDownGridFormation"
    [] name \in {"corner", "corners"} -> "generateCornerConvergenceFormation"
    [] name \in {"vortex", "tornado"} -> "generateVortexFormation"
    [] name = "wall" -> "generateWallFormation"
    [] name = "infinity" -> "generateInfinityFormation"
    [] name \in {"dna", "dnahelix"} -> "generateDNAHelixFormation"
    [] name \in {"expanding", "expandingsphere"} -> "generateExpandingSphereFormation"
    [] OTHER -> ""

\* getRandomFormation(numQuads), randomIndex being the index drawn
getRandomFormation(numQuads, randomIndex) ==
  /\ fn' = [on |-> TRUE, op |-> "getRandomFormation", numQuads |-> numQuads,
            generator |-> formationGenerators[randomIndex + 1],
            result |-> generate(formationGenerators[randomIndex + 1], numQuads),
            placed |-> {}]
  /\ UNCHANGED <<physvars, ui, hook, ctl>>

\* getFormationByName(name, numQuads)
getFormationByName(name, numQuads, randomIndex) ==
  /\ \E generator \in {IF generatorOfName(toLowerCase(name)) = ""
                       THEN formationGenerators[randomIndex + 1]
                       ELSE generatorOfName(toLowerCase(name))} :
       fn' = [on |-> TRUE, op |-> "getFormationByName", numQuads |-> numQuads,
              generator |-> generator,
              result |-> generate(generator, numQuads),
              placed |-> {}]
  /\ UNCHANGED <<physvars, ui, hook, ctl>>

\* handleFormation of MultiMode with quadcopterCount quadcopters: a
\* quadcopter without a formation entry keeps its pose
handleFormation(quadcopterCount, randomIndex) ==
  /\ \E formation \in {generate(formationGenerators[randomIndex + 1], quadcopterCount)} :
       fn' = [on |-> TRUE, op |-> "handleFormation", numQuads |-> quadcopterCount,
              generator |-> formationGenerators[randomIndex + 1],
              result |-> formation,
              placed |-> {index \in 1..quadcopterCount : index <= Len(formation)}]
  /\ UNCHANGED <<physvars, ui, hook, ctl>>

\* ------------------------------------------------------------------------
\* Coordinate transforms between the physics frame and the Three.js frame
\* ------------------------------------------------------------------------
\* the components the quaternions [w, x, y, z] are built from
QuatComponents == {0, One, 0 - Num(5, 10), NaN, PInf}

QuatInputs == [1..4 -> QuatComponents]

\* new ThreeQuaternion(-x, z, -y, w): the constructor stores its arguments
physicsQuaternionToThreeJsSimple(physicsQuat) ==
  [x |-> FNeg(physicsQuat[2]), y |-> physicsQuat[4], z |-> FNeg(physicsQuat[3]),
   w |-> physicsQuat[1]]

\* the inverse of a mapping that only swaps y and z
threeJsQuaternionToPhysicsSwapOnly(threeQuat) ==
  <<threeQuat.w, threeQuat.x, threeQuat.z, threeQuat.y>>

\* return [w, -x, -z, y]
threeJsQuaternionToPhysics(threeQuat) ==
  <<threeQuat.w, FNeg(threeQuat.x), FNeg(threeQuat.z), threeQuat.y>>

NoConversion == [on |-> TRUE, op |-> "none", arg |-> <<>>, three |-> <<>>, back |-> <<>>]

\* three = physicsQuaternionToThreeJsSimple(physicsQuat)
toThreeJs(physicsQuat) ==
  /\ fn.on
  /\ fn' = [on |-> TRUE, op |-> "physicsQuaternionToThreeJsSimple", arg |-> physicsQuat,
            three |-> physicsQuaternionToThreeJsSimple(physicsQuat), back |-> <<>>]
  /\ UNCHANGED <<physvars, ui, hook, ctl>>

\* back = threeJsQuaternionToPhysics(three)
toPhysics ==
  /\ fn.on
  /\ fn.op = "physicsQuaternionToThreeJsSimple"
  /\ fn' = [fn EXCEPT !.op = "threeJsQuaternionToPhysics",
                      !.back = threeJsQuaternionToPhysics(fn.three)]
  /\ UNCHANGED <<physvars, ui, hook, ctl>>

\* ------------------------------------------------------------------------
\* Specifications
\* ------------------------------------------------------------------------
\* construct / reset / step sequences on one engine
Next ==
  \/ \E i \in DOMAIN ActionInputs : step(1, ActionInputs[i], Null)
  \/ step(1, ActionInputs[2], Num(4, 100))
  \/ reset(1, "S")
  \/ construct(1)

Spec == Init /\ [][Next]_vars

\* one engine and a caller that keeps the objects it passed in and got
\* back, and writes to them
InitCaller == InitFrom({2, 5}, {1})

NextCaller ==
  \/ step(1, ActionInputs[2], Null)
  \/ getState(1)
  \/ \E h \in Handles : reset(1, h)
  \/ \E h \in Handles, f \in FieldSet : setElem(h, f)
  \/ \E h \in Handles, f \in FieldSet : setField(h, f)

SpecCaller == InitCaller /\ [][NextCaller]_vars

\* two engines built from the same state and params, stepped and reset
\* independently of each other
InitPair == InitFrom({2}, {1, 2})

\* throttle 0, -1 and +1
PairActions == {1, 3, 4}

\* step() calls of both engines together
MaxPairSteps == 3

NextPair ==
  \/ \E e \in Engines, i \in PairActions :
       /\ used.steps[1] + used.steps[2] < MaxPairSteps
       /\ step(e, ActionInputs[i], Null)
  \/ \E e \in Engines : reset(e, "S")

SpecPair == InitPair /\ [][NextPair]_vars

\* one engine and a caller that reads the state as a flat array and writes
\* to the array it got
InitArray == InitFrom({2, 5}, {1})

NextArray ==
  \/ \E i \in {2, 5} : step(1, ActionInputs[i], Null)
  \/ getStateArray(1)
  \/ reset(1, "S")
  \/ \E i \in {1, 7, 13} : setArr(i)

SpecArray == InitArray /\ [][NextArray]_vars

\* one engine whose step() is that of either variant of the class, the
\* TypeScript one or the compiled one
InitVariants == InitFrom({1, 2, 3}, {1})

NextVariants ==
  \/ \E i \in {2, 4, 5} : step(1, ActionInputs[i], Null)
  \/ \E i \in {2, 4, 5} : stepCompiled(1, ActionInputs[i], Null)
  \/ reset(1, "S")

SpecVariants == InitVariants /\ [][NextVariants]_vars

\* one engine built from each params literal, stepped with and without an
\* explicit dt, its configuration read back
InitConfig == InitFrom({1, 2}, DOMAIN ParamInputs)

NextConfig ==
  \/ \E i \in {2, 5} : step(1, ActionInputs[i], Null)
  \/ step(1, ActionInputs[2], Num(1, 100))
  \/ getParams(1)
  \/ construct(1)
  \/ reset(1, "S")

SpecConfig == InitConfig /\ [][NextConfig]_vars

\* two engines, the second rebuilt from the caller's params object after
\* the caller changed one field of it
InitUnused == InitFrom({2}, {2})

NextUnused ==
  \/ \E e \in Engines, i \in {2, 4} :
       /\ used.steps[1] + used.steps[2] < MaxPairSteps
       /\ step(e, ActionInputs[i], Null)
  \/ \E f \in {"mass", "armLength", "thrustCoefficient", "torqueCoefficient",
               "maxMotorSpeed"} : setParam("callerP", f)
  \/ construct(2)

SpecUnused == InitUnused /\ [][NextUnused]_vars

\* one engine built with a zero or a negative inertia component
InitInertia == InitFrom({1, 2}, {4, 5})

NextInertia ==
  \/ \E i \in DOMAIN ActionInputs : step(1, ActionInputs[i], Null)
  \/ step(1, ActionInputs[2], 0)
  \/ getState(1)
  \/ reset(1, "S")
  \/ construct(1)

SpecInertia == InitInertia /\ [][NextInertia]_vars

\* one engine whose state becomes NaN (zero quaternion, zero inertia
\* component), stepped on, reset and read
InitNaN == InitFrom({2, 4}, {1, 4})

NextNaN ==
  \/ \E i \in DOMAIN ActionInputs : step(1, ActionInputs[i], Null)
  \/ \E dt \in {0, Num(1, 100)} : step(1, ActionInputs[2], dt)
  \/ getState(1)
  \/ reset(1, "S")

SpecNaN == InitNaN /\ [][NextNaN]_vars

\* one engine stepped with its default dt and with dt = 0
InitZeroDt == InitFrom({1, 2}, {1, 2, 4})

NextZeroDt ==
  \/ \E i \in {2, 4, 5} : step(1, ActionInputs[i], Null)
  \/ \E i \in {1, 2} : step(1, ActionInputs[i], 0)
  \/ reset(1, "S")

SpecZeroDt == InitZeroDt /\ [][NextZeroDt]_vars

\* one engine whose state becomes NaN, read through getState() and
\* through getStateArray()
InitViews == InitFrom({2, 4}, {1, 4})

NextViews ==
  \/ \E i \in {1, 2, 5} : step(1, ActionInputs[i], Null)
  \/ getState(1)
  \/ getStateArray(1)
  \/ reset(1, "S")

SpecViews == InitViews /\ [][NextViews]_vars

\* one engine and a caller that keeps the params object it passed in and
\* the one getParams() returned, and writes to them
InitParams == InitFrom({2}, {1, 2})

NextParams ==
  \/ step(1, ActionInputs[2], Null)
  \/ getParams(1)
  \/ construct(1)
  \/ \E h \in ParamsHandles, f \in {"mass", "dt"} : setParam(h, f)
  \/ \E h \in ParamsHandles, i \in {1, 3} : setInertiaElem(h, i)

SpecParams == InitParams /\ [][NextParams]_vars

\* SingleMode or MultiMode under every sequence of play, pause, resume,
\* reset and animation frames
InitPlayback ==
  /\ PhysFrom({1}, {1})
  /\ \E mode \in Modes : ui = mount(mode)
  /\ hook = Absent
  /\ ctl = Absent
  /\ fn = Absent

NextPlayback ==
  \/ resume
  \/ startNew
  \/ \E lens \in [1..Len(ui.quads) -> 2..MaxTrajLen] : computed(lens)
  \/ pause
  \/ handleReset
  \/ \E delta \in FrameDeltas : frame(delta)

SpecPlayback == InitPlayback /\ [][NextPlayback]_vars

\* computeTrajectory calls of usePrecomputedSimulation that may overlap: a
\* second call may start while the first one is suspended in an await
InitHook ==
  /\ PhysFrom({1}, {1})
  /\ ui = Absent
  /\ hook = mountHook
  /\ ctl = Absent
  /\ fn = Absent

NextHook ==
  \/ \E c \in 1..NumCalls, i \in DOMAIN HookInputs, useAI \in BOOLEAN :
       computeTrajectory(c, HookInputs[i], useAI)
  \/ \E c \in 1..NumCalls, ok \in BOOLEAN : initializeAI(c, ok)
  \/ \E c \in 1..NumCalls, action \in InferredActions : infer(c, action)
  \/ \E c \in 1..NumCalls : inferFailed(c)

SpecHook == InitHook /\ [][NextHook]_vars

\* computeTrajectory calls one after the other, as the Play button starts
\* them: it is disabled while isComputing
NextHookSequential ==
  \/ \E c \in 1..NumCalls, i \in DOMAIN HookInputs, useAI \in BOOLEAN :
       ~hook.isComputing /\ computeTrajectory(c, HookInputs[i], useAI)
  \/ \E c \in 1..NumCalls, ok \in BOOLEAN : initializeAI(c, ok)
  \/ \E c \in 1..NumCalls, action \in InferredActions : infer(c, action)
  \/ \E c \in 1..NumCalls : inferFailed(c)

SpecHookSequential == InitHook /\ [][NextHookSequential]_vars

\* one SimulationController: step() calls that may overlap, and reset()
InitController ==
  /\ PhysFrom({1}, {1})
  /\ ui = Absent
  /\ hook = Absent
  /\ ctl = newController
  /\ fn = Absent

NextController ==
  \/ \E c \in 1..NumStepCalls : controllerStep(c)
  \/ \E c \in 1..NumStepCalls, action \in InferredActions : controllerInferred(c, action)
  \/ \E c \in 1..NumStepCalls : controllerInferFailed(c)
  \/ controllerReset

SpecController == InitController /\ [][NextController]_vars

\* the formation functions applied to every count from 1 to MaxQuads
\* (handleFormation: the counts of the slider, from 2)
NoResult ==
  [on |-> TRUE, op |-> "none", numQuads |-> 0, generator |-> "", result |-> <<>>,
   placed |-> {}]

InitFormations ==
  /\ PhysFrom({1}, {1})
  /\ ui = Absent
  /\ hook = Absent
  /\ ctl = Absent
  /\ fn = NoResult

NextFormations ==
  \/ \E numQuads \in 1..MaxQuads, randomIndex \in RandomIndices :
       getRandomFormation(numQuads, randomIndex)
  \/ \E name \in FormationNames, numQuads \in 1..MaxQuads :
       \E randomIndex \in (IF generatorOfName(toLowerCase(name)) = ""
                           THEN RandomIndices ELSE {0}) :
          getFormationByName(name, numQuads, randomIndex)
  \/ \E quadcopterCount \in 2..MaxQuads, randomIndex \in RandomIndices :
       handleFormation(quadcopterCount, randomIndex)

SpecFormations == InitFormations /\ [][NextFormations]_vars

\* the two quaternion conversions applied one after the other to every
\* quaternion of QuatInputs
InitQuaternion ==
  /\ PhysFrom({1}, {1})
  /\ ui = Absent
  /\ hook = Absent
  /\ ctl = Absent
  /\ fn = NoConversion

NextQuaternion ==
  \/ \E physicsQuat \in QuatInputs : toThreeJs(physicsQuat)
  \/ toPhysics

SpecQuaternion == InitQuaternion /\ [][NextQuaternion]_vars

\* ------------------------------------------------------------------------
\* Properties
\* ------------------------------------------------------------------------
NormTol == 4

QuatOf(v) == <<v[7], v[8], v[9], v[10]>>

SumSq(q) ==
  FAdd(FAdd(FAdd(FMul(q[1], q[1]), FMul(q[2], q[2])), FMul(q[3], q[3])), FMul(q[4], q[4]))

\* a quaternion of numbers whose norm is 1 up to the resolution of the model
IsUnit(q) ==
  /\ \A i \in 1..4 : IsFinite(q[i])
  /\ Abs(SumSq(q) - Scale) <= NormTol

StepDone(e) == lastOp.op = "step" /\ lastOp.e = e

\* this.state.quaternion, the quaternion of the object step() returned, and
\* the quaternion getState() would return
StoredQuaternion(e) == heap.arrs[heap.objs[eng[e].state].quaternion]
ReturnedQuaternion == heap.arrs[heap.objs[held.R].quaternion]
GetStateQuaternion(e) == [i \in 1..4 |-> JsonNumber(StoredQuaternion(e)[i])]

\* the quaternion and the angular velocity are numbers and the quaternion
\* is not the zero quaternion
Normalizable(v) ==
  /\ \A i \in 7..13 : IsFinite(ToNum(v[i]))
  /\ SumSq(QuatOf(v)) # 0

\* no inertia component of the configuration c (params, inertiaMatrix,
\* inertiaInv) is zero, so that inertiaInv holds numbers
InvertibleInertia(c) == \A i \in 1..3 : c[1].inertia[i] # 0

SameInputs(a, b) ==
  /\ a.called /\ b.called
  /\ a.pre = b.pre
  /\ a.params = b.params
  /\ a.action = b.action
  /\ a.dt = b.dt

Writes == {"setElem", "setField"}

ArraysOf(H, o) == {H.objs[o][f] : f \in FieldSet}

\* C3 as stated: reset(S) followed by getState() returns a value deep-equal
\* to S that is neither S nor the internal state object; writing to a value
\* getState() returned changes nothing the engine reads; two successive
\* getState() results share no array
C3_ResetGetStateIsolated ==
  [][ /\ (lastOp.op = "reset" /\ lastOp'.op = "getState") =>
           /\ DeepVal(heap', held'.G) = DeepVal(heap, held[lastOp.h])
           /\ held'.G # held'.S
           /\ held'.G # eng'[1].state
      /\ (lastOp'.op \in Writes /\ lastOp'.h = "G") =>
           EngineView(heap', eng', 1) = EngineView(heap, eng, 1)
      /\ (held'.G # 0 /\ held'.G2 # 0) =>
           ArraysOf(heap', held'.G) \cap ArraysOf(heap', held'.G2) = {}
    ]_vars

\* C4: a write to the state object the caller passed to the constructor or
\* to reset(), or to one of its arrays, changes neither the state that
\* getState(), getStateArray() and the next step() read nor the params
C4_CallerStateCopied ==
  [][ (lastOp'.op \in Writes /\ lastOp'.h = "S") =>
        /\ EngineView(heap', eng', 1) = EngineView(heap, eng, 1)
        /\ ParamsVal(heap', eng', 1) = ParamsVal(heap, eng, 1)
        /\ ArraysOf(heap', eng'[1].state) \cap ArraysOf(heap', held'.S) = {}
    ]_vars

\* the caller has written to an array of S after the engine took S, and
\* the engine still holds the old value
C4_Witness ==
  /\ lastOp.op = "setElem" /\ lastOp.h = "S" /\ lastOp.f = "position"
  /\ used.steps[1] = 0
  /\ heap.arrs[heap.objs[held.S].position][1] = WriteValue
  /\ heap.arrs[heap.objs[eng[1].state].position][1] # WriteValue

\* C5 as stated: only step() and reset() change the internal state; a
\* caller that writes to an object it holds, in particular to the arrays of
\* a value step() returned, leaves the state the engine reads unchanged
C5_OnlyStepAndResetChangeState ==
  [][ lastOp'.op \notin {"step", "reset", "construct"} =>
        EngineView(heap', eng', 1) = EngineView(heap, eng, 1) ]_vars

InUnitRange(x) == x >= 0 - One /\ x <= One

\* C7: the commanded thrust of a step is (throttle + 1) * mass * gravity
\* floored at 0: 0 at throttle -1, mass*gravity at 0, 2*mass*gravity at +1,
\* and of two steps with the same params the one with the larger throttle
\* in [-1, 1] has the larger or equal thrust
C7_ThrustFromThrottle ==
  /\ \A e \in Engines :
       (last[e].called /\ InUnitRange(last[e].action[1])) =>
         LET mg == FMul(last[e].params[1].mass, last[e].params[1].gravity)
             throttle == last[e].action[1]
             thrust == last[e].controls[1]
         IN  /\ throttle = 0 - One => thrust = 0
             /\ throttle = 0 => thrust = mg
             /\ throttle = One => thrust = 2 * mg
             /\ thrust >= 0 /\ thrust <= 2 * mg
             /\ thrust = FMul(FMul(FAdd(throttle, One), last[e].params[1].mass),
                              last[e].params[1].gravity)
  /\ ( /\ last[1].called /\ last[2].called
       /\ last[1].params = last[2].params
       /\ InUnitRange(last[1].action[1]) /\ InUnitRange(last[2].action[1])
       /\ last[1].action[1] <= last[2].action[1] )
     => last[1].controls[1] <= last[2].controls[1]

\* the two engines stepped with throttles -1 and +1: thrust 0 and 2*m*g
C7_Witness ==
  /\ last[1].called /\ last[2].called
  /\ last[1].action[1] = 0 - One /\ last[2].action[1] = One
  /\ last[1].controls[1] = 0
  /\ last[2].controls[1] > 0

\* C8: the commanded torques of a step are (roll*0.5, pitch*0.5, yaw*0.1),
\* whatever the throttle and whatever the params
C8_TorquesFromAction ==
  last[1].called =>
    /\ last[1].controls[2] = FMul(last[1].action[2], Num(5, 10))
    /\ last[1].controls[3] = FMul(last[1].action[3], Num(5, 10))
    /\ last[1].controls[4] = FMul(last[1].action[4], Num(1, 10))

\* a step with full throttle and non-zero roll, pitch and yaw on an engine
\* built with non-default mass, inertia and arm length
C8_Witness ==
  /\ last[1].called
  /\ last[1].action = ActionInputs[4]
  /\ last[1].params[1].mass # defaultParams.mass
  /\ last[1].params[1].armLength # defaultParams.armLength
  /\ last[1].controls[2] = Half

\* C9: a step with action components outside [-1, 1] is taken and replaces
\* the state; the thrust is never negative and is 0 for every throttle
\* <= -1; the torques are action * maximum also beyond +-1
C9_OutOfRangeAccepted ==
  /\ last[1].called =>
       /\ last[1].controls[1] >= 0
       /\ last[1].action[1] <= 0 - One => last[1].controls[1] = 0
       /\ \A i \in 2..4 :
            Abs(last[1].action[i]) > One =>
              /\ last[1].controls[i] =
                   (last[1].action[i] * (IF i = 4 THEN 1 ELSE 5)) \div 10
              /\ Abs(last[1].controls[i]) > (IF i = 4 THEN maxYawTorque ELSE maxRollTorque)
  /\ StepDone(1) =>
       /\ EngineView(heap, eng, 1) = last[1].post
       /\ \A i \in 1..13 : last[1].post[i] # Null

\* the step with action (-2, 3, -3, 2) was taken: thrust 0, torques
\* (1.5, -1.5, 0.2), and the state moved
C9_Witness ==
  /\ StepDone(1)
  /\ last[1].action = ActionInputs[5]
  /\ last[1].controls = <<0, Num(15, 10), Num(-15, 10), Num(2, 10)>>
  /\ last[1].post # last[1].pre

Hovering(v) ==
  /\ \A i \in 1..3 : IsFinite(v[i])
  /\ \A i \in 4..6 : v[i] = 0
  /\ QuatOf(v) = <<One, 0, 0, 0>>
  /\ \A i \in 11..13 : v[i] = 0

\* C10 as stated: a step with action (0,0,0,0) from a state with
\* quaternion (1,0,0,0) and zero velocity and angular velocity commands
\* thrust mass*gravity, has zero acceleration and angular acceleration, and
\* leaves position, velocity, quaternion and angular velocity as they were
C10_HoverEquilibrium ==
  (last[1].called /\ last[1].action = <<0, 0, 0, 0>> /\ Hovering(last[1].pre)) =>
    /\ last[1].controls[1] = FMul(last[1].params[1].mass, last[1].params[1].gravity)
    /\ last[1].debug.acceleration = <<0, 0, 0>>
    /\ last[1].debug.angularAcceleration = <<0, 0, 0>>
    /\ last[1].post = last[1].pre
    /\ StepDone(1) => EngineView(heap, eng, 1) = last[1].pre

HoverTol == 2

\* C10 amended: on an engine built with non-zero inertia components such a
\* step commands thrust mass*gravity, has zero angular
\* acceleration and zero horizontal acceleration, and leaves quaternion,
\* angular velocity and the horizontal position and velocity as they were;
\* the vertical acceleration is (mass*gravity)/mass - gravity, which is
\* zero only up to rounding, and the vertical position and velocity stay
\* within rounding of their initial values; with the default mass and
\* gravity the acceleration is exactly zero and the state exactly unchanged
C10_HoverEquilibriumUpToRounding ==
  ( /\ last[1].called /\ last[1].action = <<0, 0, 0, 0>> /\ Hovering(last[1].pre)
    /\ InvertibleInertia(last[1].params) ) =>
    /\ last[1].controls[1] = FMul(last[1].params[1].mass, last[1].params[1].gravity)
    /\ last[1].debug.angularAcceleration = <<0, 0, 0>>
    /\ last[1].debug.acceleration[1] = 0
    /\ last[1].debug.acceleration[2] = 0
    /\ last[1].debug.acceleration[3] =
         FSub(FDiv(last[1].controls[1], last[1].params[1].mass),
              last[1].params[1].gravity)
    /\ Abs(last[1].debug.acceleration[3]) <= HoverTol
    /\ \A i \in (1..13) \ {3, 6} : last[1].post[i] = last[1].pre[i]
    /\ \A i \in {3, 6} : Abs(last[1].post[i] - last[1].pre[i]) <= HoverTol
    /\ ( /\ last[1].params[1].mass = defaultParams.mass
         /\ last[1].params[1].gravity = defaultParams.gravity )
       => /\ last[1].debug.acceleration = <<0, 0, 0>>
          /\ last[1].post = last[1].pre
          /\ StepDone(1) => EngineView(heap, eng, 1) = last[1].pre

\* the second of two hover steps in a row with the default params has
\* been taken
C10_Witness ==
  /\ StepDone(1)
  /\ last[1].action = <<0, 0, 0, 0>>
  /\ Hovering(last[1].pre)
  /\ last[1].before = 1
  /\ last[1].params[1].mass = defaultParams.mass
  /\ InvertibleInertia(last[1].params)
  /\ last[1].controls[1] = FMul(defaultParams.mass, defaultParams.gravity)
  /\ last[1].post = last[1].pre

\* the arrays this.state of engine e refers to
StateArrays(H, E, e) == ArraysOf(H, E[e].state)

\* C11: getStateArray() returns a new array of 13 numbers, position,
\* velocity, quaternion (w,x,y,z), angular velocity of the current internal
\* state in that order, and a write to the returned array leaves the
\* internal state unchanged
C11_StateArrayFreshAndOrdered ==
  [][ /\ lastOp'.op = "getStateArray" =>
           /\ Len(heap'.arrs[held'.A]) = 13
           /\ \A i \in 1..3 :
                /\ heap'.arrs[held'.A][i] = heap'.arrs[heap'.objs[eng'[1].state].position][i]
                /\ heap'.arrs[held'.A][3 + i] = heap'.arrs[heap'.objs[eng'[1].state].velocity][i]
                /\ heap'.arrs[held'.A][10 + i] =
                     heap'.arrs[heap'.objs[eng'[1].state].angularVelocity][i]
           /\ \A i \in 1..4 :
                heap'.arrs[held'.A][6 + i] = heap'.arrs[heap'.objs[eng'[1].state].quaternion][i]
           /\ held'.A \notin StateArrays(heap', eng', 1)
           /\ held'.A \notin ArraysOf(heap', held'.S)
           /\ held'.R # 0 => held'.A \notin ArraysOf(heap', held'.R)
           /\ \A i \in 1..13 :
                heap'.arrs[held'.A][i] =
                  (heap.arrs[heap.objs[eng[1].state].position]
                     \o heap.arrs[heap.objs[eng[1].state].velocity]
                     \o heap.arrs[heap.objs[eng[1].state].quaternion]
                     \o heap.arrs[heap.objs[eng[1].state].angularVelocity])[i]
      /\ lastOp'.op = "setArr" =>
           /\ EngineView(heap', eng', 1) = EngineView(heap, eng, 1)
           /\ eng' = eng
    ]_vars

\* after a step the caller took the state array and overwrote its first
\* element; the engine still holds the stepped position
C11_Witness ==
  /\ lastOp.op = "setArr"
  /\ used.steps[1] = 1
  /\ heap.arrs[held.A][1] = WriteValue
  /\ heap.arrs[heap.objs[eng[1].state].position][1] # WriteValue
  /\ heap.arrs[held.A][2] = heap.arrs[heap.objs[eng[1].state].position][2]

\* the derivative of a state vector under engine e's params and given
\* controls
DerivativeAt(e, stateVec, controls) == quadcopterDynamics(eng[e], stateVec, controls)

\* C12 as stated: the debug bundle of a step() result holds the linear
\* and angular acceleration of the state the call began with, under this
\* call's controls, and the thrust rotated by that state's quaternion
C12_DebugFromStateBeforeStep ==
  last[1].called =>
    /\ last[1].debug.acceleration =
         <<DerivativeAt(1, last[1].pre, last[1].controls)[4],
           DerivativeAt(1, last[1].pre, last[1].controls)[5],
           DerivativeAt(1, last[1].pre, last[1].controls)[6]>>
    /\ last[1].debug.angularAcceleration =
         <<DerivativeAt(1, last[1].pre, last[1].controls)[11],
           DerivativeAt(1, last[1].pre, last[1].controls)[12],
           DerivativeAt(1, last[1].pre, last[1].controls)[13]>>
    /\ last[1].debug.thrustWorld =
         matVecMul(quatToRotationMatrix(QuatOf(last[1].pre)), <<0, 0, last[1].controls[1]>>)

\* the state vector s advanced by c * k, componentwise
Advance(s, c, k) == Map13(LAMBDA i : FAdd(s[i], FMul(c, k[i])))

ParamWrites == {"setParam", "setInertiaElem"}

\* C14: no write to the params object getParams() returned or to the one
\* passed to the constructor, elements of their inertia arrays included,
\* changes the engine's configuration or what a later getParams() reports
C14_ParamsCopied ==
  [][lastOp'.op \in ParamWrites =>
       \A e \in Engines : ParamsVal(heap', eng', e) = ParamsVal(heap, eng, e)]_vars

\* the value the params object p gives for field f, an inertia array by
\* its elements
ParamValue(p, f) == IF f = "inertia" THEN heap.arrs[p.inertia] ELSE p[f]

\* the value the constructor resolves for field f from the caller's params
Resolved(f) == IF f \in callerP.has THEN ParamValue(callerP, f) ELSE defaultParams[f]

\* C15: every field of the engine's configuration is the value the caller's
\* params object names for it, or the default when it names none;
\* getParams() reports those values; a step() without dt advances by the
\* resolved dt
C15_ParamsResolvedFieldByField ==
  /\ \A f \in ParamNames : ParamValue(eng[1].params, f) = Resolved(f)
  /\ held.P.has # {} => \A f \in ParamNames : ParamValue(held.P, f) = Resolved(f)
  /\ (last[1].called /\ last[1].dt = Null) => last[1].timestep = Resolved("dt")
  /\ (last[1].called /\ last[1].dt # Null) => last[1].timestep = last[1].dt

\* getParams() on an engine built from a partial params object reported a
\* supplied mass and the default gravity, and a step() without dt advanced
\* by the supplied dt
C15_Witness ==
  /\ callerP.has = {"mass", "inertia", "dt", "armLength"}
  /\ held.P.has # {}
  /\ held.P.mass = Num(12, 10)
  /\ held.P.gravity = Num(981, 100)
  /\ heap.arrs[held.P.inertia] = <<Num(1, 100), Num(1, 100), Num(2, 100)>>
  /\ last[1].called /\ last[1].dt = Null /\ last[1].timestep = Num(2, 100)

\* the fields the claim says nothing reads
UnusedParams == {"armLength", "thrustCoefficient", "torqueCoefficient", "maxMotorSpeed"}

\* the part of a configuration (params, inertiaMatrix, inertiaInv) left
\* when the unused fields are set aside
Consumed(c) == <<[f \in ParamNames \ UnusedParams |-> c[1][f]], c[2], c[3]>>

\* C16: two step() calls on engines whose configurations differ at most in
\* armLength, thrustCoefficient, torqueCoefficient and maxMotorSpeed, made
\* from equal states with equal action and dt, give equal results, debug
\* bundles and new states
C16_UnusedParamsIgnored ==
  ( /\ last[1].called /\ last[2].called
    /\ last[1].pre = last[2].pre
    /\ last[1].action = last[2].action
    /\ last[1].dt = last[2].dt
    /\ Consumed(last[1].params) = Consumed(last[2].params) ) =>
      /\ last[1].post = last[2].post
      /\ last[1].debug = last[2].debug
      /\ last[1].controls = last[2].controls
      /\ last[1].timestep = last[2].timestep

\* both engines stepped from equal states with equal action, their
\* configurations differing in one of the four fields
C16_Witness ==
  /\ last[1].called /\ last[2].called
  /\ last[1].pre = last[2].pre
  /\ last[1].action = last[2].action
  /\ Consumed(last[1].params) = Consumed(last[2].params)
  /\ last[1].params # last[2].params
  /\ last[1].post # last[1].pre
  /\ last[1].post = last[2].post

HasNaN(v) == \E i \in DOMAIN v : v[i] = NaN

AllFinite(v) == \A i \in DOMAIN v : IsFinite(v[i])

\* the diagonal of this.inertiaInv
InverseInertia(e) == [i \in 1..3 |-> eng[e].inertiaInv[i][i]]

ZeroInertia(e) == \E i \in 1..3 : heap.arrs[eng[e].params.inertia][i] = 0

NegativeInertia(e) == \E i \in 1..3 : heap.arrs[eng[e].params.inertia][i] < 0

C18_NaNPersistsUntilReset ==
  [][ /\ lastOp'.op = "step" =>
           \A i \in 1..13 :
             EngineView(heap, eng, 1)[i] = NaN =>
               /\ EngineView(heap', eng', 1)[i] = NaN
               /\ Flatten(heap', held'.R)[i] = NaN
      /\ ( /\ lastOp.op = "reset"
           /\ AllFinite(Flatten(heap, held[lastOp.h]))
           /\ lastOp'.op = "getState" ) =>
           /\ AllFinite(Flatten(heap', held'.G))
           /\ Flatten(heap', held'.G) = Flatten(heap, held[lastOp.h]) ]_vars

\* a second step from a NaN-corrupted state gave a NaN-corrupted state, and
\* the getState() after the reset that followed returned finite numbers
C18_Witness ==
  /\ last[1].called
  /\ last[1].before = 1
  /\ HasNaN(last[1].pre)
  /\ HasNaN(last[1].post)
  /\ lastOp.op = "getState"
  /\ AllFinite(Flatten(heap, held.G))

\* a step() with action (0,0,0,0) and an explicit dt of 0
ZeroDtStep(l) == l.called /\ l.action = <<0, 0, 0, 0>> /\ l.dt = 0

ExactUnit(q) == FSqrt(SumSq(q)) = One

Other(e) == IF e = 1 THEN 2 ELSE 1

\* the result, the debug bundle and the new state a step(action) of engine
\* e would give in heap H with engines E
FutureStep(H, E, e, action) ==
  stepValues(E[e], Flatten(H, E[e].state), H.arrs[H.objs[E[e].state].quaternion],
             action, Null)

\* engines 1 and 2 hold different state objects with different arrays
StatesDisjoint(H, E) ==
  /\ E[1].state # E[2].state
  /\ StateArrays(H, E, 1) \cap StateArrays(H, E, 2) = {}

\* a step() or reset() of one engine leaves the state, the configuration
\* and the result of a future step() of the other as they were
OtherUntouched ==
  lastOp'.op \in {"step", "reset"} =>
    /\ EngineView(heap', eng', Other(lastOp'.e)) = EngineView(heap, eng, Other(lastOp'.e))
    /\ ParamsVal(heap', eng', Other(lastOp'.e)) = ParamsVal(heap, eng, Other(lastOp'.e))
    /\ FutureStep(heap', eng', Other(lastOp'.e), ActionInputs[4])
         = FutureStep(heap, eng, Other(lastOp'.e), ActionInputs[4])

C21_DebugSelfConsistent ==
  last[1].called =>
    /\ last[1].debug.acceleration[1]
         = FDiv(last[1].debug.thrustWorld[1], last[1].params[1].mass)
    /\ last[1].debug.acceleration[2]
         = FDiv(last[1].debug.thrustWorld[2], last[1].params[1].mass)
    /\ last[1].debug.acceleration[3]
         = FSub(FDiv(last[1].debug.thrustWorld[3], last[1].params[1].mass),
                last[1].params[1].gravity)

\* C22: a getStateArray() that follows a getState() with nothing in
\* between returns the concatenation of position, velocity, quaternion and
\* angularVelocity of the object getState() returned, also when the state
\* holds NaN or Infinity
C22_StateArrayMatchesGetState ==
  [][(lastOp.op = "getState" /\ lastOp'.op = "getStateArray") =>
       heap'.arrs[held'.A] = Flatten(heap', held'.G)]_vars

\* C23: whenever the frame loop of a Quadcopter reads
\* trajectory[segmentIndex] and trajectory[segmentIndex + 1], both indices
\* lie inside its trajectory
C23_SegmentInsideTrajectory ==
  ui.on =>
    \A i \in 1..Len(ui.quads) :
      ui.read[i] # NoRead =>
        /\ 0 <= ui.read[i]
        /\ ui.read[i] + 1 <= ui.quads[i].len - 1

PlayPresses == {"resume", "startNew"}

\* C24: isPausedMidSimulation is true only between a pause and the next
\* resume or reset, and the Play press that follows a playback that ran to
\* its end computes a new trajectory
C24_PausedOnlyWhilePaused ==
  [][ /\ ui'.isPausedMidSimulation => ui'.event = "pause"
      /\ (ui.ranToEnd /\ ui'.event \in PlayPresses) => ui'.event = "startNew" ]_vars

\* the trajectory is the state sequence of one engine started from s0
SingleEngineRun(points, s0) ==
  /\ Len(points) >= 1
  /\ points[1].state = JsonVec(s0)
  /\ \A k \in 2..Len(points) :
       points[k].state = physicsStep(points[k - 1].state, points[k].action)

\* C25: every trajectory computeTrajectory publishes is the state sequence of
\* a single engine started from the initialState of the call that published
\* it, also when a second call starts while an earlier one is suspended in
\* an await
C25_TrajectoryOfOneEngine ==
  (hook.on /\ hook.publishedBy # 0) =>
     SingleEngineRun(hook.trajectory, hook.calls[hook.publishedBy].initialState)

\* every position coordinate lies inside [-4, 4]
InsideBox(stateVec) ==
  \A k \in 1..3 : /\ IsFinite(ToNum(stateVec[k]))
                  /\ Abs(ToNum(stateVec[k])) <= positionLimit

\* the trajectory starts with s0 at time 0 with the zero action, has at most
\* maxSteps + 1 points, and only its last point may lie outside the box
WellFormedTrajectory(points, s0) ==
  /\ Len(points) >= 1
  /\ points[1].state = JsonVec(s0)
  /\ points[1].timestamp = 0
  /\ points[1].action = <<0, 0, 0, 0>>
  /\ Len(points) <= MaxHookSteps + 1
  /\ \A k \in 1..(Len(points) - 1) : InsideBox(points[k].state)

RealTransition(r) ==
  /\ JsonVec(r.inferredFrom) = r.stateBefore
  /\ r.stateAfter = controllerPhysicsStep(r.stateBefore, r.action)

\* C27: every record step() returns describes one real transition, and
\* consecutive history records chain, for every interleaving of overlapping
\* step() calls and of reset() with a step() in flight
C27_RecordsAreRealTransitions ==
  ctl.on =>
    /\ \A i \in 1..Len(ctl.returned) : RealTransition(ctl.returned[i])
    /\ \A i \in 1..(Len(ctl.history) - 1) :
         ctl.history[i + 1].stateBefore = ctl.history[i].stateAfter

\* history and step counter agree
HistoryCounted(k) ==
  /\ Len(k.history) = k.currentStep
  /\ \A i \in 1..Len(k.history) : k.history[i].stepNumber = i

\* C28: the history length equals currentStep and the i-th record has
\* stepNumber i; a step() whose inference fails changes nothing; reset()
\* returns to currentStep 0 with an empty history
C28_HistoryMatchesCounter ==
  /\ [](ctl.on => HistoryCounted(ctl))
  /\ [][ /\ ctl'.event = "stepFailed" =>
              /\ ctl'.physics = ctl.physics
              /\ ctl'.currentStep = ctl.currentStep
              /\ ctl'.history = ctl.history
         /\ ctl'.event = "reset" =>
              /\ ctl'.currentStep = 0
              /\ ctl'.history = <<>> ]_vars

\* two records in the history after a failed step() and a reset()
C28_Witness ==
  /\ ctl.on
  /\ Len(ctl.history) = 2
  /\ ctl.failed > 0
  /\ ctl.resets > 0

\* C29: for every count n from 1 to 20, every formation reachable through
\* getRandomFormation(n) or getFormationByName(name, n) has exactly n
\* entries
C29_FormationHasOneEntryPerQuad ==
  (fn.on /\ fn.op # "none" /\ fn.numQuads \in 1..20) => Len(fn.result) = fn.numQuads

\* C30: threeJsQuaternionToPhysics is the inverse of
\* physicsQuaternionToThreeJsSimple: converting [w, x, y, z] to a Three.js
\* quaternion and back returns exactly [w, x, y, z]
C30_QuaternionRoundTrip ==
  (fn.on /\ fn.op = "threeJsQuaternionToPhysics") => fn.back = fn.arg

\* a round trip of a quaternion whose x and y are distinct and non-zero
C30_Witness ==
  /\ fn.on
  /\ fn.op = "threeJsQuaternionToPhysics"
  /\ fn.arg = <<0, One, 0 - Num(5, 10), PInf>>
  /\ fn.three = [x |-> 0 - One, y |-> PInf, z |-> Num(5, 10), w |-> 0]

====
